---------------------------- MODULE Spec2Model ----------------------------
(***************************************************************************)
(* Model of the Elo rating engine of AIReviewerArena                       *)
(* (src/AIReviewerArena/ai_reviewer_arena/elo_system.py).                  *)
(*                                                                         *)
(* Numbers.  The engine computes in binary floating point.  The model      *)
(* computes in fixed point:                                                *)
(*   - a rating is an integer number of 1/RatingScale rating points,       *)
(*   - a score (normalized_score, expected_score, a vote mass) is an       *)
(*     integer number of 1/One units, One = 2^28,                          *)
(*   - a weight is an integer number of 1/WeightScale units.               *)
(* Every intermediate value stays below 2^31.                              *)
(***************************************************************************)
EXTENDS Integers, Sequences, FiniteSets, TLC

(***************************************************************************)
(* Fixed-point representation                                              *)
(***************************************************************************)
RatingScale == 1000
WeightScale == 1000
Half == 16384                    \* 2^14, the limb of a score
One == Half * Half               \* 2^28, the score 1.0

Abs(x) == IF x < 0 THEN -x ELSE x
Max2(x, y) == IF x >= y THEN x ELSE y

\* floor(x * y / One) for scores x, y in 0..One, by 14-bit limbs
MulFix(x, y) ==
    LET xh == x \div Half
        xl == x % Half
        yh == y \div Half
        yl == y % Half
    IN  xh * yh + ((xh * yl + xl * yh + ((xl * yl) \div Half)) \div Half)

\* floor(x * a / b) for a score x and small naturals a <= b
MulDiv(x, a, b) ==
    LET xh == x \div Half
        xl == x % Half
        t  == xh * a
    IN  (t \div b) * Half + (((t % b) * Half + xl * a) \div b)

\* x * c / One rounded to the nearest integer, sign-symmetric (as IEEE rounding is)
ScaleRound(x, c) ==
    LET m  == Abs(x)
        mh == m \div Half
        ml == m % Half
        q  == (mh * c + ((ml * c) \div Half) + (Half \div 2)) \div Half
    IN  IF x < 0 THEN -q ELSE q

\* One * 10^(-(2^i) / (400 * RatingScale)) for i = 0..21, rounded to nearest
Pow10Table ==
    << 268433911, 268432366, 268429275, 268423094, 268410733, 268386013,
       268336579, 268237738, 268040166, 267645459, 266857786, 265289388,
       262180193, 256070694, 244275482, 222289976, 184077149, 126229214,
       59358085, 13125622, 641800, 1534 >>

RECURSIVE Pow10Bits(_, _, _)
Pow10Bits(d, i, acc) ==
    IF d = 0 THEN acc
    ELSE IF i > Len(Pow10Table) THEN 0
    ELSE Pow10Bits(d \div 2, i + 1,
                   IF d % 2 = 1 THEN MulFix(acc, Pow10Table[i]) ELSE acc)

\* math.pow(10, -d / 400) for a rating distance d >= 0 (in rating units)
Pow10Neg(d) == Pow10Bits(d, 1, One)

RECURSIVE LongDiv(_, _, _, _)
\* floor(r * 2^n / m) + q * 2^n, for r < m <= 2^29
LongDiv(r, m, q, n) ==
    IF n = 0 THEN q
    ELSE IF 2 * r >= m THEN LongDiv(2 * r - m, m, 2 * q + 1, n - 1)
    ELSE LongDiv(2 * r, m, 2 * q, n - 1)

(***************************************************************************)
(* EloSystem: configuration                                                *)
(***************************************************************************)
ARENA_RATING_CHOICES == << "A is better", "B is better", "Tie", "Both are bad" >>

FIELDS == << "technical_quality", "constructiveness", "clarity", "overall_quality" >>

Reviewers == {"A", "B", "C"}

k_factor == 32
initial_rating == 1500 * RatingScale

DefaultWeights ==
    [technical_quality |-> 200, constructiveness |-> 200,
     clarity |-> 200, overall_quality |-> 400]

CustomWeights ==
    [technical_quality |-> 400, constructiveness |-> 300,
     clarity |-> 200, overall_quality |-> 100]


WeightChoices == {DefaultWeights, CustomWeights}

\* Bounds of the model
MaxHistory == 2                  \* longest vote log an engine is constructed over
MaxVotes == 1                    \* longest vote log / vote list
MaxApplied == 2                  \* most applications of the update rule per engine

(***************************************************************************)
(* Votes (votes.py, class Vote): the fields the engine reads               *)
(***************************************************************************)
Vote(a, b, tq, co, cl, ov) ==
    [reviewer_a |-> a, reviewer_b |-> b, technical_quality |-> tq,
     constructiveness |-> co, clarity |-> cl, overall_quality |-> ov]

AllA == << 1, 1, 1, 1 >>
AllB == << 2, 2, 2, 2 >>
AllTie == << 3, 3, 3, 3 >>
AllBad == << 4, 4, 4, 4 >>
Mixed == << 1, 2, 3, 4 >>
Split == << 1, 2, 3, 1 >>

VoteOf(a, b, j) ==
    Vote(a, b, ARENA_RATING_CHOICES[j[1]], ARENA_RATING_CHOICES[j[2]],
         ARENA_RATING_CHOICES[j[3]], ARENA_RATING_CHOICES[j[4]])

\* The votes the callers of the engine submit
VoteChoices ==
    { VoteOf("A", "B", AllA), VoteOf("B", "C", AllB), VoteOf("C", "A", Split) }

\* The votes other sessions append to the vote log
LogChoices == { VoteOf("B", "A", AllTie) }

(***************************************************************************)
(* EloSystem: the defaultdicts                                             *)
(***************************************************************************)
EmptyMap == [x \in {} |-> 0]

\* defaultdict.__getitem__: the value read
Get(m, x, dflt) == IF x \in DOMAIN m THEN m[x] ELSE dflt

\* a defaultdict(float): the default of a missing key is 0
Touch_Zero(m, x, dflt) ==
    IF x \in DOMAIN m THEN m
    ELSE [y \in DOMAIN m \cup {x} |-> IF y = x THEN 0 ELSE m[y]]

\* a read that stores the default whether or not the key is present
Touch_Overwrite(m, x, dflt) ==
    [y \in DOMAIN m \cup {x} |-> IF y = x THEN dflt ELSE m[y]]

\* defaultdict.__getitem__: the map after the read (a missing key is inserted)
Touch(m, x, dflt) ==
    IF x \in DOMAIN m THEN m
    ELSE [y \in DOMAIN m \cup {x} |-> IF y = x THEN dflt ELSE m[y]]

RECURSIVE TouchAll(_, _, _)
TouchAll(m, S, dflt) ==
    IF S = {} THEN m
    ELSE LET x == CHOOSE y \in S : TRUE
         IN  TouchAll(Touch(m, x, dflt), S \ {x}, dflt)

RECURSIVE SumMap(_, _)
SumMap(m, S) ==
    IF S = {} THEN 0
    ELSE LET x == CHOOSE y \in S : TRUE
         IN  m[x] + SumMap(m, S \ {x})

(***************************************************************************)
(* EloSystem.expected_score                                                *)
(***************************************************************************)
\* expected_score with the exponent's sign reversed
expected_score_Reversed(rating_a, rating_b) ==
    LET d == rating_a - rating_b
        p == Pow10Neg(Abs(d))
    IN  IF d <= 0
        THEN (IF p = 0 THEN One ELSE LongDiv(One, One + p, 0, 28))
        ELSE LongDiv(p, One + p, 0, 28)

expected_score(rating_a, rating_b) ==
    LET d == rating_b - rating_a
        p == Pow10Neg(Abs(d))
    IN  IF d <= 0
        THEN (IF p = 0 THEN One ELSE LongDiv(One, One + p, 0, 28))
        ELSE LongDiv(p, One + p, 0, 28)

(***************************************************************************)
(* EloSystem.expected_score in IEEE doubles                                *)
(*                                                                         *)
(* A natural number below 2^57 is a pair << hi, lo >> standing for         *)
(* hi * 2^26 + lo with lo < 2^26.  A positive double is << m, e >>         *)
(* standing for m * 2^e, m its 53-bit significand (2^52 <= m < 2^53).      *)
(* Every operation rounds to nearest, ties to even, as the hardware does.  *)
(***************************************************************************)
Limb == 67108864

Two52 == << Limb, 0 >>

Two53 == << 2 * Limb, 0 >>

Twice(x) == << 2 * x[1] + (2 * x[2]) \div Limb, (2 * x[2]) % Limb >>

Plus(x, y) == << x[1] + y[1] + (x[2] + y[2]) \div Limb, (x[2] + y[2]) % Limb >>

Minus(x, y) == << x[1] - y[1] - (IF x[2] < y[2] THEN 1 ELSE 0), (x[2] - y[2] + Limb) % Limb >>

Geq(x, y) == x[1] > y[1] \/ (x[1] = y[1] /\ x[2] >= y[2])

Halve(x) == << x[1] \div 2, (x[2] + (x[1] % 2) * Limb) \div 2 >>

RECURSIVE ShiftLeft(_, _)
ShiftLeft(x, n) == IF n = 0 THEN x ELSE ShiftLeft(Twice(x), n - 1)

RECURSIVE ShiftRightSticky(_, _)
\* x / 2^n rounded down, with the lowest bit set when a set bit was dropped
\* (26 bits, 4 bits or 1 bit at a time)
ShiftRightSticky(x, n) ==
    LET Sticky(q, dropped) == << q[1], IF dropped # 0 /\ q[2] % 2 = 0 THEN q[2] + 1 ELSE q[2] >>
    IN  IF n = 0 \/ x = << 0, 0 >> THEN x
        ELSE IF n >= 26 THEN ShiftRightSticky(Sticky(<< 0, x[1] >>, x[2]), n - 26)
        ELSE IF n >= 4
             THEN ShiftRightSticky(Sticky(<< x[1] \div 16, (x[2] + (x[1] % 16) * Limb) \div 16 >>, x[2] % 16), n - 4)
        ELSE ShiftRightSticky(Sticky(Halve(x), x[2] % 2), n - 1)

RECURSIVE Round53(_, _)
\* the double nearest to m * 2^e for m > 0, ties to the even significand
Round53(m, e) ==
    IF m[1] = 0 THEN Round53(<< m[2], 0 >>, e - 26)
    ELSE IF m[1] < Limb \div 16 THEN Round53(<< 16 * m[1] + (16 * m[2]) \div Limb, (16 * m[2]) % Limb >>, e - 4)
    ELSE IF ~Geq(m, Two52) THEN Round53(Twice(m), e - 1)
    ELSE IF ~Geq(m, Two53) THEN << m, e >>
    ELSE IF Geq(m, Twice(Twice(Two53))) THEN Round53(ShiftRightSticky(m, 1), e + 1)
    ELSE IF Geq(m, Twice(Two53))
         THEN LET q == Halve(Halve(m))
                  r == m[2] % 4
              IN  Round53(IF r = 3 \/ (r = 2 /\ q[2] % 2 = 1) THEN Plus(q, << 0, 1 >>) ELSE q, e + 2)
    ELSE LET q == Halve(m)
         IN  Round53(IF m[2] % 2 = 1 /\ q[2] % 2 = 1 THEN Plus(q, << 0, 1 >>) ELSE q, e + 1)

\* x + y in doubles
float_add(x, y) ==
    LET hi == IF x[2] >= y[2] THEN x ELSE y
        lo == IF x[2] >= y[2] THEN y ELSE x
        n  == hi[2] - lo[2]
    IN  IF n <= 3 THEN Round53(Plus(ShiftLeft(hi[1], n), lo[1]), lo[2])
        ELSE Round53(Plus(ShiftLeft(hi[1], 3), ShiftRightSticky(lo[1], n - 3)), hi[2] - 3)

RECURSIVE DivBits(_, _, _)
\* << the first n bits of r / m after the binary point as a number, the
\* remainder left >> of a long division, for r < m and n <= 9
DivBits(r, m, n) ==
    IF n = 0 THEN << 0, r >>
    ELSE LET bit == Geq(Twice(r), m)
             d   == DivBits(IF bit THEN Minus(Twice(r), m) ELSE Twice(r), m, n - 1)
         IN  << (IF bit THEN 2 ^ (n - 1) ELSE 0) + d[1], d[2] >>

\* 1 / x in doubles: 54 bits of 2^52 / m, nine at a time, and whether a
\* remainder is left
float_reciprocal(x) ==
    IF x[1] = Two52 THEN << Two52, -x[2] - 104 >>
    ELSE LET d1 == DivBits(Two52, x[1], 9)
             d2 == DivBits(d1[2], x[1], 9)
             d3 == DivBits(d2[2], x[1], 9)
             d4 == DivBits(d3[2], x[1], 9)
             d5 == DivBits(d4[2], x[1], 9)
             d6 == DivBits(d5[2], x[1], 9)
             q  == << d1[1] * 524288 + d2[1] * 1024 + d3[1] * 2 + d4[1] \div 256,
                      (d4[1] % 256) * 262144 + d5[1] * 512 + d6[1] >>
         IN  Round53(Plus(Twice(q), << 0, IF d6[2] = << 0, 0 >> THEN 0 ELSE 1 >>), -x[2] - 107)

RECURSIVE Pow5(_)
\* 5^n, two factors at a time
Pow5(n) ==
    IF n = 0 THEN << 0, 1 >>
    ELSE IF n = 1 THEN << 0, 5 >>
    ELSE LET p == Pow5(n - 2)
         IN  << 25 * p[1] + (25 * p[2]) \div Limb, (25 * p[2]) % Limb >>

\* math.pow(10, n) for a whole exponent n, |n| <= 22 (5^n < 2^53): 10^n is a
\* double, and 10^-n is the double nearest to 1 / 10^n
float_pow10(n) ==
    IF n >= 0 THEN Round53(Pow5(n), n)
    ELSE float_reciprocal(Round53(Pow5(-n), -n))

FloatOne == << Two52, -52 >>

FloatHalf == << Two52, -53 >>

float_less(x, y) == x[2] < y[2] \/ (x[2] = y[2] /\ ~Geq(x[1], y[1]))

\* the rating points of one power of ten in the odds
PowerPoints == 400 * RatingScale

\* expected_score with the exponent's sign reversed
expected_score_float_Reversed(rating_a, rating_b) ==
    float_reciprocal(float_add(FloatOne, float_pow10((rating_a - rating_b) \div PowerPoints)))

\* expected_score as the doubles compute it, for ratings a whole number of
\* powers of ten apart: (rating_b - rating_a) / 400 is then exact
expected_score_float(rating_a, rating_b) ==
    float_reciprocal(float_add(FloatOne, float_pow10((rating_b - rating_a) \div PowerPoints)))

(***************************************************************************)
(* EloSystem.update_ratings                                                *)
(***************************************************************************)
\* "Tie" scored as a loss of A
Score2_TieAsLoss(result) ==
    IF result = ARENA_RATING_CHOICES[1] THEN 2
    ELSE IF result = ARENA_RATING_CHOICES[2] THEN 0
    ELSE IF result = ARENA_RATING_CHOICES[3] THEN 0
    ELSE 1

\* "Both are bad" scored as a loss of A
Score2_BothBadAsLoss(result) ==
    IF result = ARENA_RATING_CHOICES[1] THEN 2
    ELSE IF result = ARENA_RATING_CHOICES[2] THEN 0
    ELSE IF result = ARENA_RATING_CHOICES[3] THEN 1
    ELSE IF result = ARENA_RATING_CHOICES[4] THEN 0
    ELSE 1

\* twice the raw score of one judgement
Score2(result) ==
    IF result = ARENA_RATING_CHOICES[1] THEN 2
    ELSE IF result = ARENA_RATING_CHOICES[2] THEN 0
    ELSE IF result = ARENA_RATING_CHOICES[3] THEN 1
    ELSE 1

RECURSIVE TotalScore2(_, _, _)
TotalScore2(w, vote, i) ==
    IF i > Len(FIELDS) THEN 0
    ELSE w[FIELDS[i]] * Score2(vote[FIELDS[i]]) + TotalScore2(w, vote, i + 1)

RECURSIVE TotalWeight(_, _)
TotalWeight(w, i) ==
    IF i > Len(FIELDS) THEN 0 ELSE w[FIELDS[i]] + TotalWeight(w, i + 1)

normalized_score(w, vote) ==
    MulDiv(One, TotalScore2(w, vote, 1), 2 * TotalWeight(w, 1))

\* k_factor * x, a score difference turned into rating units
RatingDelta(x) == ScaleRound(x, k_factor * RatingScale)

\* update_ratings taking B's expected score from the ratings after A's update
update_ratings_StaleB(w, r, vc, vote) ==
    LET a  == vote.reviewer_a
        b  == vote.reviewer_b
        n  == normalized_score(w, vote)
        r0 == Touch(Touch(r, a, initial_rating), b, initial_rating)
        expected_a == expected_score(r0[a], r0[b])
        r1 == [r0 EXCEPT ![a] = @ + RatingDelta(n - expected_a)]
        expected_b == expected_score(r1[b], r1[a])
        r2 == [r1 EXCEPT ![b] = @ + RatingDelta((One - n) - expected_b)]
        c0 == Touch(vc, a, 0)
        c1 == [c0 EXCEPT ![a] = @ + n]
        c2 == Touch(c1, b, 0)
        c3 == [c2 EXCEPT ![b] = @ + (One - n)]
    IN  [ratings |-> r2, vote_counts |-> c3]

\* update_ratings adding normalized_score to the vote counts of both reviewers
update_ratings_CountBoth(w, r, vc, vote) ==
    LET a  == vote.reviewer_a
        b  == vote.reviewer_b
        n  == normalized_score(w, vote)
        r0 == Touch(Touch(r, a, initial_rating), b, initial_rating)
        expected_a == expected_score(r0[a], r0[b])
        expected_b == One - expected_a
        r1 == [r0 EXCEPT ![a] = @ + RatingDelta(n - expected_a)]
        r2 == [r1 EXCEPT ![b] = @ + RatingDelta((One - n) - expected_b)]
        c0 == Touch(vc, a, 0)
        c1 == [c0 EXCEPT ![a] = @ + n]
        c2 == Touch(c1, b, 0)
        c3 == [c2 EXCEPT ![b] = @ + n]
    IN  [ratings |-> r2, vote_counts |-> c3]

update_ratings(w, r, vc, vote) ==
    LET a  == vote.reviewer_a
        b  == vote.reviewer_b
        n  == normalized_score(w, vote)
        r0 == Touch(Touch(r, a, initial_rating), b, initial_rating)
        expected_a == expected_score(r0[a], r0[b])
        expected_b == One - expected_a
        r1 == [r0 EXCEPT ![a] = @ + RatingDelta(n - expected_a)]
        r2 == [r1 EXCEPT ![b] = @ + RatingDelta((One - n) - expected_b)]
        c0 == Touch(vc, a, 0)
        c1 == [c0 EXCEPT ![a] = @ + n]
        c2 == Touch(c1, b, 0)
        c3 == [c2 EXCEPT ![b] = @ + (One - n)]
    IN  [ratings |-> r2, vote_counts |-> c3]

(***************************************************************************)
(* EloSystem.compute_ratings                                               *)
(***************************************************************************)
RECURSIVE Replay(_, _, _, _, _)
\* for vote in self.votes: self.update_ratings(vote)
Replay(w, r, vc, vs, i) ==
    IF i > Len(vs) THEN [ratings |-> r, vote_counts |-> vc]
    ELSE LET u == update_ratings(w, r, vc, vs[i])
         IN  Replay(w, u.ratings, u.vote_counts, vs, i + 1)

\* compute_ratings without the reset of self._ratings
compute_ratings_NoReset(w, r, vc, vs) == Replay(w, r, vc, vs, 1)

\* r, vc: the engine's maps when the call starts; self._ratings is replaced by a
\* new defaultdict, self.vote_counts is kept
compute_ratings(w, r, vc, vs) == Replay(w, EmptyMap, vc, vs, 1)

(***************************************************************************)
(* EloSystem.get_fair_pair                                                 *)
(***************************************************************************)
max_attempts == 100

\* an optional candidate set: None, or a set of reviewers
NoneArg == [none |-> TRUE, set |-> {}]
Some(S) == [none |-> FALSE, set |-> S]

\* what a call returns: a pair, None, or the IndexError of random.choice([])
Pair(a, b) == [kind |-> "pair", a |-> a, b |-> b]
NoPair == [kind |-> "None", a |-> "", b |-> ""]
Raised == [kind |-> "IndexError", a |-> "", b |-> ""]

RECURSIVE MaxOf(_)
MaxOf(S) ==
    LET x == CHOOSE y \in S : TRUE
    IN  IF S = {x} THEN x ELSE Max2(x, MaxOf(S \ {x}))

RECURSIVE MinOf(_)
MinOf(S) ==
    LET x == CHOOSE y \in S : TRUE
    IN  IF S = {x} THEN x ELSE -Max2(-x, -MinOf(S \ {x}))

Values(r) == { r[x] : x \in DOMAIN r }

\* the bound rounded down to a multiple of step
CeilToStep_Floor(x, step) == (x \div step) * step

\* math.ceil(x / step) * step, for x >= 0
CeilToStep(x, step) == ((x + step - 1) \div step) * step

\* eligible_reviewers iterating over every rated reviewer instead of candidates_b
eligible_reviewers_AllRated(r, reviewer_a, current_diff, exclude_pairs, candidates_b) ==
    { x \in DOMAIN r \cup candidates_b :
        /\ x # reviewer_a
        /\ Abs(Get(r, x, initial_rating) - Get(r, reviewer_a, initial_rating))
              <= current_diff
        /\ << reviewer_a, x >> \notin exclude_pairs
        /\ << x, reviewer_a >> \notin exclude_pairs }

\* eligible_reviewers with "<" in place of "<=" on the rating distance
eligible_reviewers_Strict(r, reviewer_a, current_diff, exclude_pairs, candidates_b) ==
    { x \in candidates_b :
        /\ x # reviewer_a
        /\ Abs(Get(r, x, initial_rating) - Get(r, reviewer_a, initial_rating))
              < current_diff
        /\ << reviewer_a, x >> \notin exclude_pairs
        /\ << x, reviewer_a >> \notin exclude_pairs }

\* the list comprehension of one pass of the widening loop
eligible_reviewers(r, reviewer_a, current_diff, exclude_pairs, candidates_b) ==
    { x \in candidates_b :
        /\ x # reviewer_a
        /\ Abs(Get(r, x, initial_rating) - Get(r, reviewer_a, initial_rating))
              <= current_diff
        /\ << reviewer_a, x >> \notin exclude_pairs
        /\ << x, reviewer_a >> \notin exclude_pairs }

\* the eligible reviewers of the widest window, without the narrower ones first
Widen_Widest(r, reviewer_a, current_diff, max_possible_diff, step, exclude_pairs, candidates_b) ==
    [found |-> eligible_reviewers(r, reviewer_a, max_possible_diff, exclude_pairs,
                                  candidates_b),
     window |-> max_possible_diff]

RECURSIVE Widen(_, _, _, _, _, _, _)
\* while current_diff <= max_possible_diff: the first non-empty eligible list,
\* with the window that gave it; {} when the loop ends without one
Widen(r, reviewer_a, current_diff, max_possible_diff, step, exclude_pairs, candidates_b) ==
    IF current_diff > max_possible_diff THEN [found |-> {}, window |-> current_diff]
    ELSE LET e == eligible_reviewers(r, reviewer_a, current_diff,
                                     exclude_pairs, candidates_b)
         IN  IF e # {} THEN [found |-> e, window |-> current_diff]
             ELSE Widen(r, reviewer_a, current_diff + step, max_possible_diff,
                        step, exclude_pairs, candidates_b)

\* one attempt of the outer loop with reviewer_a chosen
Attempt(r, reviewer_a, step, exclude_pairs, candidates_b) ==
    LET base_rating == Get(r, reviewer_a, initial_rating)
        max_rating == MaxOf(Values(r))
        min_rating == MinOf(Values(r))
        max_possible_diff ==
            CeilToStep(Max2(max_rating - base_rating, base_rating - min_rating), step)
    IN  Widen(r, reviewer_a, 0, max_possible_diff, step, exclude_pairs, candidates_b)

\* "candidates or all_reviewers": an empty set replaced like None
candidates_OrAll(arg, all_reviewers) ==
    IF arg.none \/ arg.set = {} THEN all_reviewers ELSE arg.set

\* candidates if candidates is not None else all_reviewers
candidates(arg, all_reviewers) == IF arg.none THEN all_reviewers ELSE arg.set

\* Every way a call can end: what it returns and the ratings map it leaves.
\* An attempt reads self._ratings[reviewer_a] and self._ratings[r] for every other
\* r of candidates_b, and each read inserts a missing key.
get_fair_pair(r, step, exclude_pairs, arg_a, arg_b) ==
    LET all_reviewers == DOMAIN r
        candidates_a == candidates(arg_a, all_reviewers)
        candidates_b == candidates(arg_b, all_reviewers)
        found(a) == Attempt(r, a, step, exclude_pairs, candidates_b).found
        failing == { a \in candidates_a : found(a) = {} }
        reads(T) == T \cup candidates_b
    IN  IF Cardinality(candidates_a) < 1 \/ Cardinality(candidates_b) < 1
        THEN { [result |-> NoPair, ratings |-> r] }
        ELSE IF all_reviewers = {}
        THEN { [result |-> Pair(a, b), ratings |-> r] :
                  << a, b >> \in { << x, y >> \in candidates_a \X candidates_b : y # x } }
             \cup { [result |-> Raised, ratings |-> r] :
                  a \in { x \in candidates_a : candidates_b \ {x} = {} } }
        ELSE UNION { { [result |-> Pair(ta[2], b),
                        ratings |-> TouchAll(r, reads(ta[1] \cup {ta[2]}),
                                             initial_rating)] :
                          b \in found(ta[2]) } :
                     ta \in { t \in (SUBSET failing) \X candidates_a :
                                Cardinality(t[1]) <= max_attempts - 1 } }
             \cup { [result |-> NoPair,
                     ratings |-> TouchAll(r, reads(T), initial_rating)] :
                  T \in { U \in SUBSET failing :
                            U # {} /\ Cardinality(U) <= max_attempts } }

(***************************************************************************)
(* EloSystem.get_ratings, get_ratings_stats, _calculate_confidence_interval *)
(***************************************************************************)
RECURSIVE SqrtDigits(_, _, _, _, _, _, _)
\* math.sqrt(n) digit by digit, two bits of n at a time: w is the weight of the
\* bit pair taken next (0 once the bits of n are taken), frac the number of
\* fraction pairs (all zero) taken so far, s the root so far and R the
\* remainder so far.  The root stops after frac_max fraction pairs or once it
\* reaches root_max; it is sqrt(n) * 2^frac rounded down, exact for
\* 0 < n < 2^31 and roots below 2^30
SqrtDigits(n, w, frac, frac_max, root_max, s, R) ==
    IF w > 0
    THEN IF R > s \/ (R = s /\ ((n \div w) % 4) >= 1)
         THEN SqrtDigits(n, w \div 4, 0, frac_max, root_max,
                         2 * s + 1, 4 * (R - s) + ((n \div w) % 4) - 1)
         ELSE SqrtDigits(n, w \div 4, 0, frac_max, root_max, 2 * s,
                         4 * R + ((n \div w) % 4))
    ELSE IF frac = frac_max \/ s >= root_max THEN [root |-> s, frac |-> frac]
    ELSE IF R > s
    THEN SqrtDigits(n, 0, frac + 1, frac_max, root_max, 2 * s + 1, 4 * (R - s) - 1)
    ELSE SqrtDigits(n, 0, frac + 1, frac_max, root_max, 2 * s, 4 * R)

\* math.sqrt(vote_count) for a vote count 0 < vote_count < 2^31 (in 1/One), in
\* 1/One: Half * sqrt(vote_count units)
SqrtScore(vote_count) == SqrtDigits(vote_count, 4 * One, 0, 14, 4 * One, 0, 0).root

\* 1.96 * k_factor, in rating units
MarginFactor == (196 * k_factor * RatingScale) \div 100

\* the margin growing with the square root of the vote count
Margin_Growing(vote_count) ==
    ((SqrtScore(vote_count) \div Half) * (MarginFactor \div 16)) \div (Half \div 16)

\* margin = 1.96 * (self.k_factor / math.sqrt(vote_count)), in rating units
\* (rounded down); the root is taken with the fraction bits that keep the
\* margin within one unit: up to a root of 2^29 for the vote counts below
\* 2^20 / One, whose margins are large, and up to 2^22 for the others
Margin(vote_count) ==
    LET sqrt == SqrtDigits(vote_count, 4 * One, 0, 29,
                           IF vote_count < 64 * Half THEN 2 * One ELSE One \div 64, 0, 0)
        m == sqrt.root
        t == MarginFactor * Half
    IN  LongDiv(t % m, m, t \div m, sqrt.frac)

calculate_confidence_interval(rating, vote_count) ==
    IF vote_count = 0 THEN << rating, rating >>
    ELSE LET margin == Margin(vote_count)
         IN  << rating - margin, rating + margin >>

\* the stats returned, and self.vote_counts after the reads of the loop
get_ratings_stats(r, vc) ==
    [stats |-> [x \in DOMAIN r |->
                  [score |-> r[x],
                   ci |-> calculate_confidence_interval(r[x], Get(vc, x, 0)),
                   votes |-> Get(vc, x, 0)]],
     vote_counts |-> TouchAll(vc, DOMAIN r, 0)]

\* The arguments callers pass
DefaultStep == 10 * RatingScale
StepChoices == { DefaultStep, 60 * RatingScale }
ExcludeChoices ==
    { {}, { << "A", "B" >> }, { << "A", "B" >>, << "B", "A" >> },
      { << "B", "C" >>, << "C", "A" >> } }
\* candidates_a, candidates_b
CandidateChoices ==
    { << NoneArg, NoneArg >>, << Some({}), Some({"B", "C"}) >>,
      << Some({"A"}), Some({}) >>, << Some({"A"}), Some({"B", "C"}) >>,
      << Some({"A"}), Some({"A"}) >>, << Some({"A", "B"}), Some({"B", "C"}) >>,
      << Some({"A", "B"}), NoneArg >>, << Some(Reviewers), Some(Reviewers) >> }
\* app.select_new_paper: the valid reviewers of the paper, on both sides
AppCandidates == { NoneArg, Some(Reviewers) }

(***************************************************************************)
(* State                                                                   *)
(***************************************************************************)
VARIABLES
    weights,        \* self.weights
    votes_db,       \* the vote log behind self.votes_db
    votes,          \* self.votes
    ratings,        \* self._ratings
    vote_counts,    \* self.vote_counts
    ret,            \* the last call on the engine and what it returned
    call,           \* the calls in progress: the frame of each calling thread
    votes_sqlite,   \* the table "comparisons" of arena_votes.db
    votes_jsonl,    \* the characters of arena_votes.jsonl
    paper_registry, \* papers.paper_registry: the papers, by position
    session         \* the gr.State of each browser session

\* the arena around the engines (app.py)
arena == << votes_sqlite, votes_jsonl, paper_registry, session >>

vars == << weights, votes_db, votes, ratings, vote_counts, ret, call,
           votes_sqlite, votes_jsonl, paper_registry, session >>

\* no call in progress
NoCalls == << >>

\* an engine on its own, as the tests construct it: no stores, papers or sessions
NoArena ==
    /\ votes_sqlite = {}
    /\ votes_jsonl = << >>
    /\ paper_registry = << >>
    /\ session = << >>

TotalMass == SumMap(vote_counts, DOMAIN vote_counts)

\* room for k more applications of the update rule
Room(k) == TotalMass + k * One <= MaxApplied * One

Init ==
    /\ weights = DefaultWeights
    /\ votes_db = << >>
    /\ votes = << >>
    /\ ratings = EmptyMap
    /\ vote_counts = EmptyMap
    /\ ret = [op |-> "__init__"]
    /\ call = NoCalls
    /\ NoArena

\* VotesInterface.store_vote, by any session
StoreVote(v) ==
    /\ Len(votes_db) < MaxVotes
    /\ votes_db' = Append(votes_db, v)
    /\ ret' = [op |-> "store_vote"]
    /\ UNCHANGED << arena, weights, votes, ratings, vote_counts, call >>

\* EloSystem.__init__: a new engine over the vote log
Construct ==
    LET u == compute_ratings(weights, EmptyMap, EmptyMap, votes_db)
    IN  /\ votes' = votes_db
        /\ ratings' = u.ratings
        /\ vote_counts' = u.vote_counts
        /\ ret' = [op |-> "__init__"]
        /\ UNCHANGED << arena, weights, votes_db, call >>

InitializeRatings ==
    LET u == compute_ratings(weights, ratings, vote_counts, votes_db)
    IN  /\ Room(Len(votes_db))
        /\ votes' = votes_db
        /\ ratings' = u.ratings
        /\ vote_counts' = u.vote_counts
        /\ ret' = [op |-> "initialize_ratings"]
        /\ UNCHANGED << arena, weights, votes_db, call >>

ComputeRatings ==
    LET u == compute_ratings(weights, ratings, vote_counts, votes)
    IN  /\ Room(Len(votes))
        /\ ratings' = u.ratings
        /\ vote_counts' = u.vote_counts
        /\ ret' = [op |-> "compute_ratings"]
        /\ UNCHANGED << arena, weights, votes_db, votes, call >>

UpdateRatings(v) ==
    LET u == update_ratings(weights, ratings, vote_counts, v)
    IN  /\ Room(1)
        /\ ratings' = u.ratings
        /\ vote_counts' = u.vote_counts
        /\ ret' = [op |-> "update_ratings", vote |-> v,
                   before |-> ratings, counts_before |-> vote_counts]
        /\ UNCHANGED << arena, weights, votes_db, votes, call >>

AddVote(v) ==
    /\ Len(votes) < MaxVotes
    /\ votes' = Append(votes, v)
    /\ ret' = [op |-> "add_vote"]
    /\ UNCHANGED << arena, weights, votes_db, ratings, vote_counts, call >>

AddVoteThenUpdateRatings(v) ==
    LET u == update_ratings(weights, ratings, vote_counts, v)
    IN  /\ Len(votes) < MaxVotes
        /\ Room(1)
        /\ votes' = Append(votes, v)
        /\ ratings' = u.ratings
        /\ vote_counts' = u.vote_counts
        /\ ret' = [op |-> "add_vote_then_update_ratings"]
        /\ UNCHANGED << arena, weights, votes_db, call >>

GetFairPair(step, exclude_pairs, arg_a, arg_b) ==
    \E o \in get_fair_pair(ratings, step, exclude_pairs, arg_a, arg_b) :
        /\ ratings' = o.ratings
        /\ ret' = [op |-> "get_fair_pair", step |-> step,
                   exclude_pairs |-> exclude_pairs,
                   candidates_a |-> arg_a, candidates_b |-> arg_b,
                   all_reviewers |-> DOMAIN ratings, result |-> o.result]
        /\ UNCHANGED << arena, weights, votes_db, votes, vote_counts, call >>

\* get_ratings: a copy of the ratings
GetRatings ==
    /\ ret' = [op |-> "get_ratings", result |-> ratings]
    /\ UNCHANGED << arena, weights, votes_db, votes, ratings, vote_counts, call >>

GetRatingsStats ==
    LET u == get_ratings_stats(ratings, vote_counts)
    IN  /\ vote_counts' = u.vote_counts
        /\ ret' = [op |-> "get_ratings_stats", result |-> u.stats]
        /\ UNCHANGED << arena, weights, votes_db, votes, ratings, call >>

Next ==
    \/ \E v \in LogChoices : StoreVote(v)
    \/ Construct
    \/ InitializeRatings
    \/ ComputeRatings
    \/ \E v \in VoteChoices : UpdateRatings(v)
    \/ \E v \in VoteChoices : AddVote(v)
    \/ \E v \in VoteChoices : AddVoteThenUpdateRatings(v)
    \/ \E c \in AppCandidates : GetFairPair(DefaultStep, {}, c, c)
    \/ GetFairPair(DefaultStep, {}, Some({"A", "B"}), Some({"B", "C"}))
    \/ GetRatings
    \/ GetRatingsStats

Spec == Init /\ [][Next]_vars

(***************************************************************************)
(* Fair-pair selection on an engine constructed over a vote log            *)
(***************************************************************************)
RECURSIVE Histories(_)
Histories(n) ==
    IF n = 0 THEN { << >> }
    ELSE LET H == Histories(n - 1)
         IN  H \cup { Append(h, v) : h \in H, v \in VoteChoices }

InitPair ==
    /\ weights = DefaultWeights
    /\ votes_db \in Histories(MaxHistory)
    /\ votes = votes_db
    /\ \E L \in SUBSET Reviewers :
          LET u == compute_ratings(weights, EmptyMap, EmptyMap, votes_db)
          IN  /\ u.ratings = EmptyMap => L = {}
              /\ ratings = TouchAll(u.ratings, L, initial_rating)
              /\ vote_counts = u.vote_counts
    /\ ret = [op |-> "__init__"]
    /\ call = NoCalls
    /\ NoArena

\* one call on the constructed engine
NextPair ==
    /\ ret.op = "__init__"
    /\ \E step \in StepChoices, ex \in ExcludeChoices, c \in CandidateChoices :
          GetFairPair(step, ex, c[1], c[2])

SpecPair == InitPair /\ [][NextPair]_vars

(***************************************************************************)
(* The update rule on chosen pre-update ratings                            *)
(***************************************************************************)
\* ratings as the tests set them (test_elo_system.py), in rating units
RatingLevels == { 1400500, 1500000, 1600250, 2400750 }

RatingPresets ==
    { EmptyMap } \cup { [x \in {"A"} |-> ra] : ra \in RatingLevels }
    \cup { [x \in {"A", "B"} |-> IF x = "A" THEN ra ELSE rb] :
             ra \in RatingLevels, rb \in RatingLevels }

Judgements == { << a, b, c, d >> : a \in 1..4, b \in 1..4, c \in 1..4, d \in 1..4 }

UpdateVotes == { VoteOf("A", "B", j) : j \in Judgements }

InitUpdate ==
    /\ weights \in WeightChoices
    /\ votes_db = << >>
    /\ votes = << >>
    /\ ratings \in RatingPresets
    /\ vote_counts = EmptyMap
    /\ ret = [op |-> "__init__"]
    /\ call = NoCalls
    /\ NoArena

\* one update on the engine
NextUpdate ==
    /\ ret.op = "__init__"
    /\ \E v \in UpdateVotes : UpdateRatings(v)

SpecUpdate == InitUpdate /\ [][NextUpdate]_vars

(***************************************************************************)
(* get_fair_pair, loop by loop                                             *)
(***************************************************************************)
\* The frame of a get_fair_pair call of thread t: its arguments, its locals and
\* the loop it is at ("for", "while") or "done" with the result.
Frame(t) == call[t]

Return(f, result) == [f EXCEPT !.pc = "done", !.result = result]

\* lines 186-203: up to the first attempt
FairPairCall(t, step, exclude_pairs, arg_a, arg_b) ==
    LET all_reviewers == DOMAIN ratings
        candidates_a == candidates(arg_a, all_reviewers)
        candidates_b == candidates(arg_b, all_reviewers)
        f == [op |-> "get_fair_pair", pc |-> "for", step |-> step,
              exclude_pairs |-> exclude_pairs, arg_a |-> arg_a, arg_b |-> arg_b,
              all_reviewers |-> all_reviewers,
              candidates_a |-> candidates_a, candidates_b |-> candidates_b,
              max_rating |-> 0, min_rating |-> 0, attempts |-> 0,
              reviewer_a |-> "", base_rating |-> 0, max_possible_diff |-> 0,
              current_diff |-> 0, passes |-> 0, eligible_reviewers |-> {},
              result |-> NoPair]
    IN  /\ t \notin DOMAIN call
        /\ \E g \in
              IF Cardinality(candidates_a) < 1 \/ Cardinality(candidates_b) < 1
              THEN { Return(f, NoPair) }
              ELSE IF all_reviewers = {}
              THEN { Return(f, IF b = "" THEN Raised ELSE Pair(a, b)) :
                        << a, b >> \in
                           { << x, y >> \in candidates_a \X (candidates_b \cup {""}) :
                                /\ y # x
                                /\ y = "" <=> candidates_b \ {x} = {} } }
              ELSE { [f EXCEPT !.max_rating = MaxOf(Values(ratings)),
                               !.min_rating = MinOf(Values(ratings))] } :
              call' = [x \in DOMAIN call \cup {t} |-> IF x = t THEN g ELSE call[x]]
        /\ ret' = [op |-> "get_fair_pair:call"]
        /\ UNCHANGED << arena, weights, votes_db, votes, ratings, vote_counts >>

\* lines 206-217: the head of one attempt, or lines 236-237 after the last
FairPairFor(t) ==
    /\ t \in DOMAIN call
    /\ Frame(t).pc = "for"
    /\ IF Frame(t).attempts >= max_attempts
       THEN /\ call' = [call EXCEPT ![t] = Return(@, NoPair)]
            /\ UNCHANGED ratings
       ELSE \E a \in Frame(t).candidates_a :
              LET r == Touch(ratings, a, initial_rating)
                  f == Frame(t)
              IN  /\ ratings' = r
                  /\ call' = [call EXCEPT ![t] =
                        [f EXCEPT !.pc = "while",
                                  !.attempts = @ + 1,
                                  !.reviewer_a = a,
                                  !.base_rating = r[a],
                                  !.max_possible_diff =
                                      CeilToStep(Max2(f.max_rating - r[a],
                                                      r[a] - f.min_rating), f.step),
                                  !.current_diff = 0,
                                  !.passes = 0]]
    /\ ret' = [op |-> "get_fair_pair:for"]
    /\ UNCHANGED << arena, weights, votes_db, votes, vote_counts >>

\* lines 219-234: one test of the while condition and one pass of its body
FairPairWhile(t) ==
    /\ t \in DOMAIN call
    /\ Frame(t).pc = "while"
    /\ LET f == Frame(t)
           r == TouchAll(ratings, f.candidates_b \ {f.reviewer_a}, initial_rating)
           e == eligible_reviewers(r, f.reviewer_a, f.current_diff,
                                   f.exclude_pairs, f.candidates_b)
       IN  IF f.current_diff > f.max_possible_diff
           THEN /\ call' = [call EXCEPT ![t].pc = "for"]
                /\ UNCHANGED ratings
           ELSE /\ ratings' = r
                /\ IF e # {}
                   THEN \E b \in e :
                          call' = [call EXCEPT ![t] =
                             Return([f EXCEPT !.passes = @ + 1,
                                              !.eligible_reviewers = e],
                                    Pair(f.reviewer_a, b))]
                   ELSE call' = [call EXCEPT ![t] =
                             [f EXCEPT !.passes = @ + 1,
                                       !.current_diff = @ + f.step]]
    /\ ret' = [op |-> "get_fair_pair:while"]
    /\ UNCHANGED << arena, weights, votes_db, votes, vote_counts >>

\* ratings as the tests set them: the scenario of three spread ratings, a cold
\* engine, one vote applied, three equal ratings
SearchPresets ==
    { [x \in Reviewers |-> IF x = "A" THEN 1500 * RatingScale
                           ELSE IF x = "B" THEN 1600 * RatingScale
                           ELSE 1400 * RatingScale],
      EmptyMap,
      [x \in {"A", "B"} |-> IF x = "A" THEN 1516 * RatingScale ELSE 1484 * RatingScale],
      [x \in Reviewers |-> initial_rating] }

InitSearch ==
    /\ weights = DefaultWeights
    /\ votes_db = << >>
    /\ votes = << >>
    /\ ratings \in SearchPresets
    /\ vote_counts = EmptyMap
    /\ ret = [op |-> "__init__"]
    /\ call = NoCalls
    /\ NoArena

\* one call, run to its end
NextSearch ==
    \/ \E step \in StepChoices, ex \in ExcludeChoices, c \in CandidateChoices :
          FairPairCall(1, step, ex, c[1], c[2])
    \/ FairPairFor(1)
    \/ FairPairWhile(1)

SpecSearch == InitSearch /\ [][NextSearch]_vars

(***************************************************************************)
(* update_ratings called by two threads on one engine                      *)
(***************************************************************************)
\* The engine takes no lock.  A thread can be switched out wherever the
\* interpreter runs a Python-level call: in the default factory of a missing
\* rating (lines 133, 134), between the miss and the store of the default, and
\* at self.expected_score (line 136); the statements of lines 139-148 contain
\* no call, their keys being present by then.
\* A step of a thread runs from one of these calls to the next.
Threads == {1, 2}

\* lines 109-131: the frame of a call, its score computed
UpdateFrame(v) ==
    [op |-> "update_ratings", pc |-> "rating_a", vote |-> v,
     normalized_score |-> normalized_score(weights, v),
     rating_a |-> 0, rating_b |-> 0]

\* the votes two sessions submit at the same time
ConcurrentVotes ==
    { << VoteOf("A", "B", AllA), v >> :
         v \in { VoteOf("A", "C", AllA), VoteOf("C", "A", Split),
                 VoteOf("B", "A", AllB) } }

\* both threads enter update_ratings
UpdateCalls(vs) ==
    /\ call = NoCalls
    /\ call' = [t \in Threads |-> UpdateFrame(vs[t])]
    /\ ret' = [op |-> "update_ratings:calls", before |-> ratings,
               counts_before |-> vote_counts]
    /\ UNCHANGED << arena, weights, votes_db, votes, ratings, vote_counts >>

\* line 134: rating_b = self._ratings[vote.reviewer_b], read by a thread with
\* frame f when the ratings are r: the frame at the next Python-level call,
\* the default factory of a missing key (nothing stored yet) or expected_score
UpdateReadB(f, r) ==
    LET reviewer_b == f.vote.reviewer_b
    IN  IF reviewer_b \in DOMAIN r
        THEN [f EXCEPT !.pc = "expected_score", !.rating_b = r[reviewer_b]]
        ELSE [f EXCEPT !.pc = "default_b"]

\* line 133: rating_a = self._ratings[vote.reviewer_a]; a missing key enters
\* the default factory with nothing stored yet, a key present is read and the
\* thread goes on to line 134
UpdateReadA(t) ==
    /\ t \in DOMAIN call
    /\ Frame(t).pc = "rating_a"
    /\ LET reviewer_a == Frame(t).vote.reviewer_a
       IN  call' = [call EXCEPT ![t] =
                      IF reviewer_a \in DOMAIN ratings
                      THEN UpdateReadB([Frame(t) EXCEPT !.rating_a = ratings[reviewer_a]],
                                       ratings)
                      ELSE [Frame(t) EXCEPT !.pc = "default_a"]]
    /\ UNCHANGED << arena, weights, votes_db, votes, ratings, vote_counts, ret >>

\* line 133, the key was missing: _default_rating returns (lines 90-91) and the
\* defaultdict stores its value under the key and gives it as the value read.
\* When another thread stored the key meanwhile, the interpreter decides:
\* CPython up to 3.12 stores the default over it, CPython 3.13 keeps the stored
\* rating and gives that one.  The thread goes on to line 134
UpdateDefaultA(t) ==
    /\ t \in DOMAIN call
    /\ Frame(t).pc = "default_a"
    /\ LET reviewer_a == Frame(t).vote.reviewer_a
           stored == [x \in DOMAIN ratings \cup {reviewer_a} |->
                        IF x = reviewer_a THEN initial_rating ELSE ratings[x]]
       IN  \/ /\ ratings' = stored
              /\ call' = [call EXCEPT ![t] =
                            UpdateReadB([Frame(t) EXCEPT !.rating_a = initial_rating],
                                        stored)]
           \/ /\ reviewer_a \in DOMAIN ratings
              /\ UNCHANGED ratings
              /\ call' = [call EXCEPT ![t] =
                            UpdateReadB([Frame(t) EXCEPT !.rating_a = ratings[reviewer_a]],
                                        ratings)]
    /\ UNCHANGED << arena, weights, votes_db, votes, vote_counts, ret >>

\* line 134, the key was missing: the default is stored, or the rating stored
\* meanwhile is kept, and read; the thread goes on to the call of expected_score
UpdateDefaultB(t) ==
    /\ t \in DOMAIN call
    /\ Frame(t).pc = "default_b"
    /\ LET reviewer_b == Frame(t).vote.reviewer_b
       IN  \/ /\ ratings' = [x \in DOMAIN ratings \cup {reviewer_b} |->
                                IF x = reviewer_b THEN initial_rating ELSE ratings[x]]
              /\ call' = [call EXCEPT ![t].pc = "expected_score",
                                      ![t].rating_b = initial_rating]
           \/ /\ reviewer_b \in DOMAIN ratings
              /\ UNCHANGED ratings
              /\ call' = [call EXCEPT ![t].pc = "expected_score",
                                      ![t].rating_b = ratings[reviewer_b]]
    /\ UNCHANGED << arena, weights, votes_db, votes, vote_counts, ret >>

\* lines 136-148: the expected scores from the ratings read, then the four "+="
UpdateApply(t) ==
    /\ t \in DOMAIN call
    /\ Frame(t).pc = "expected_score"
    /\ LET f == Frame(t)
           a == f.vote.reviewer_a
           b == f.vote.reviewer_b
           n == f.normalized_score
           expected_a == expected_score(f.rating_a, f.rating_b)
           expected_b == One - expected_a
           r0 == Touch(ratings, a, initial_rating)
           r1 == [r0 EXCEPT ![a] = @ + RatingDelta(n - expected_a)]
           r2 == Touch(r1, b, initial_rating)
           r3 == [r2 EXCEPT ![b] = @ + RatingDelta((One - n) - expected_b)]
           c0 == Touch(vote_counts, a, 0)
           c1 == [c0 EXCEPT ![a] = @ + n]
           c2 == Touch(c1, b, 0)
           c3 == [c2 EXCEPT ![b] = @ + (One - n)]
       IN  /\ ratings' = r3
           /\ vote_counts' = c3
           /\ call' = [call EXCEPT ![t].pc = "done"]
    /\ UNCHANGED << arena, weights, votes_db, votes, ret >>

NextConcurrent ==
    \/ \E vs \in ConcurrentVotes : UpdateCalls(vs)
    \/ \E t \in Threads : UpdateReadA(t)
    \/ \E t \in Threads : UpdateDefaultA(t)
    \/ \E t \in Threads : UpdateDefaultB(t)
    \/ \E t \in Threads : UpdateApply(t)

SpecConcurrent == InitSearch /\ [][NextConcurrent]_vars

(***************************************************************************)
(* The update rule on votes outside its contract                           *)
(***************************************************************************)
\* Vote declares reviewer_a, reviewer_b and the four judgements as str: any
\* string passes its validation
InvalidJudgements == { "", "a is better" }

SelfVotes == { VoteOf("A", "A", j) : j \in {AllA, AllB, AllTie, Mixed} }

InvalidVotes ==
    { [VoteOf("A", "B", j) EXCEPT ![FIELDS[i]] = bad] :
         j \in {AllA, AllB, AllTie, Mixed}, i \in 1..Len(FIELDS),
         bad \in InvalidJudgements }

\* one update on the engine
NextContract ==
    /\ ret.op = "__init__"
    /\ \E v \in SelfVotes \cup InvalidVotes : UpdateRatings(v)

SpecContract == InitUpdate /\ [][NextContract]_vars

(***************************************************************************)
(* ReviewEvalWeights: validation of the category weights                   *)
(***************************************************************************)
\* The validation compares floats against 0, 1 and 1e-6; its inputs are modelled
\* in units of 1e-7.
WeightUnit == 10000000           \* the weight 1.0
WeightTolerance == 10            \* 1e-6

\* weights the tests and callers pass: -0.1, 0, 1e-7, 0.2, 0.3, 0.333333,
\* 0.333334, 0.4, 0.4000005, 0.4000011, 1.0, 1.2
WeightLevels ==
    { -1000000, 0, 1, 2000000, 3000000, 3333330, 3333340, 4000000, 4000005,
      4000011, 10000000, 12000000 }

\* sum(getattr(self, field) for field in self.FIELDS)
RECURSIVE WeightTotal(_, _)
WeightTotal(w, i) ==
    IF i > Len(FIELDS) THEN 0 ELSE w[FIELDS[i]] + WeightTotal(w, i + 1)

\* The keyword arguments of a construction.  A total at distance exactly 1e-6
\* from 1 is left out: there the float sum's rounding decides the comparison.
WeightInputs ==
    { w \in [ { FIELDS[i] : i \in 1..Len(FIELDS) } -> WeightLevels ] :
        Abs(WeightTotal(w, 1) - WeightUnit) # WeightTolerance }

ValidationError == [kind |-> "ValidationError"]
Accepted(w) == [kind |-> "ReviewEvalWeights", weights |-> w]

\* Field(ge=0, le=1) in place of Field(gt=0, lt=1)
ReviewEvalWeights_Closed(w) ==
    IF \E i \in 1..Len(FIELDS) : ~(w[FIELDS[i]] >= 0 /\ w[FIELDS[i]] <= WeightUnit)
    THEN ValidationError
    ELSE IF Abs(WeightTotal(w, 1) - WeightUnit) > WeightTolerance
    THEN ValidationError
    ELSE Accepted(w)

\* ReviewEvalWeights(**w): the field constraints, then the model validator
ReviewEvalWeights(w) ==
    IF \E i \in 1..Len(FIELDS) : ~(w[FIELDS[i]] > 0 /\ w[FIELDS[i]] < WeightUnit)
    THEN ValidationError
    ELSE IF Abs(WeightTotal(w, 1) - WeightUnit) > WeightTolerance
    THEN ValidationError
    ELSE Accepted(w)

NewReviewEvalWeights(w) ==
    /\ ret' = [op |-> "ReviewEvalWeights", kwargs |-> w, result |-> ReviewEvalWeights(w)]
    /\ UNCHANGED << arena, weights, votes_db, votes, ratings, vote_counts, call >>

\* one construction
NextWeights ==
    /\ ret.op = "__init__"
    /\ \E w \in WeightInputs : NewReviewEvalWeights(w)

SpecWeights == Init /\ [][NextWeights]_vars

(***************************************************************************)
(* Incremental updates on an engine constructed over a vote log            *)
(***************************************************************************)
\* most votes added to an engine after its construction
MaxAdded == 2

\* add_vote_then_update_ratings on the constructed engine (the vote mass kept
\* within the width of the integers, as in Recompute)
AddThenUpdate(v) ==
    LET u == update_ratings(weights, ratings, vote_counts, v)
    IN  /\ Len(votes) < Len(votes_db) + MaxAdded
        /\ TotalMass \div One + 1 <= MaxHistory + MaxAdded + 1
        /\ votes' = Append(votes, v)
        /\ ratings' = u.ratings
        /\ vote_counts' = u.vote_counts
        /\ ret' = [op |-> "add_vote_then_update_ratings", vote |-> v]
        /\ UNCHANGED << arena, weights, votes_db, call >>

\* compute_ratings on the engine, while the vote mass it piles up (the counts
\* are not reset) stays within the width of the integers
Recompute ==
    LET u == compute_ratings(weights, ratings, vote_counts, votes)
    IN  /\ TotalMass \div One + Len(votes) <= MaxHistory + MaxAdded + 1
        /\ ratings' = u.ratings
        /\ vote_counts' = u.vote_counts
        /\ ret' = [op |-> "compute_ratings", before |-> ratings]
        /\ UNCHANGED << arena, weights, votes_db, votes, call >>

NextIncremental ==
    \/ \E v \in VoteChoices : AddThenUpdate(v)
    \/ \E c \in AppCandidates : GetFairPair(DefaultStep, {}, c, c)
    \/ GetRatingsStats
    \/ Recompute

SpecIncremental == InitPair /\ [][NextIncremental]_vars

(***************************************************************************)
(* expected_score on ratings whole powers of ten apart                     *)
(***************************************************************************)
\* most powers of ten between the odds of two ratings (400 points each)
MaxPower == 17

PowerRatings == { initial_rating + k * PowerPoints : k \in 0..MaxPower }

InitScore ==
    /\ weights = DefaultWeights
    /\ votes_db = << >>
    /\ votes = << >>
    /\ ratings = EmptyMap
    /\ vote_counts = EmptyMap
    /\ ret = [op |-> "__init__"]
    /\ call = NoCalls
    /\ NoArena

\* expected_score(rating_a, rating_b)
ExpectedScore(rating_a, rating_b) ==
    /\ ret' = [op |-> "expected_score", rating_a |-> rating_a, rating_b |-> rating_b,
               result |-> expected_score_float(rating_a, rating_b)]
    /\ UNCHANGED << arena, weights, votes_db, votes, ratings, vote_counts, call >>

\* one call on the engine
NextScore ==
    /\ ret.op = "__init__"
    /\ \E rating_a \in PowerRatings, rating_b \in PowerRatings : ExpectedScore(rating_a, rating_b)

SpecScore == InitScore /\ [][NextScore]_vars

(***************************************************************************)
(* Two engines replaying one history                                       *)
(***************************************************************************)
Engines == { 1, 2 }

\* two engines with the same weights, k_factor and initial rating, constructed
\* over the same ordered history; each stands at the reset of compute_ratings
\* (a new ratings map; the vote masses of a new engine are empty)
InitReplay ==
    /\ weights \in WeightChoices
    /\ votes_db \in Histories(MaxHistory)
    /\ votes = votes_db
    /\ ratings = EmptyMap
    /\ vote_counts = EmptyMap
    /\ ret = [op |-> "__init__"]
    /\ call = [e \in Engines |-> [op |-> "compute_ratings", applied |-> {},
                                  ratings |-> EmptyMap, vote_counts |-> EmptyMap]]
    /\ NoArena

\* an iteration of the loop that takes any vote not applied yet
ReplayVote_AnyOrder(e) ==
    \E i \in (1..Len(votes)) \ call[e].applied :
       LET u == update_ratings(weights, call[e].ratings, call[e].vote_counts, votes[i])
       IN  /\ call' = [call EXCEPT ![e] = [@ EXCEPT !.applied = @ \cup {i},
                                                    !.ratings = u.ratings,
                                                    !.vote_counts = u.vote_counts]]
           /\ ret' = [op |-> "update_ratings", engine |-> e, vote |-> votes[i]]
           /\ UNCHANGED << arena, weights, votes_db, votes, ratings, vote_counts >>

\* one iteration of "for vote in self.votes: self.update_ratings(vote)" in
\* engine e: the next vote of the list
ReplayVote(e) ==
    LET i == Cardinality(call[e].applied) + 1
        u == update_ratings(weights, call[e].ratings, call[e].vote_counts, votes[i])
    IN  /\ i <= Len(votes)
        /\ call' = [call EXCEPT ![e] = [@ EXCEPT !.applied = @ \cup {i},
                                                 !.ratings = u.ratings,
                                                 !.vote_counts = u.vote_counts]]
        /\ ret' = [op |-> "update_ratings", engine |-> e, vote |-> votes[i]]
        /\ UNCHANGED << arena, weights, votes_db, votes, ratings, vote_counts >>

NextReplay == \E e \in Engines : ReplayVote(e)

SpecReplay == InitReplay /\ [][NextReplay]_vars

(***************************************************************************)
(* The vote stores (votes.py)                                              *)
(*                                                                         *)
(* Text.  A review is a sequence of characters; an identifier or a         *)
(* judgement is one string, written to a store as a single character.      *)
(* A datetime is its date, its time of day and its microseconds.           *)
(***************************************************************************)
\* class Vote: the fields, in declaration order
VoteFields ==
    << "session_id", "paper_id", "reviewer_a", "reviewer_b", "technical_quality",
       "constructiveness", "clarity", "overall_quality", "review_a", "review_b",
       "vote_time" >>

NewVote(session_id, paper_id, a, b, tq, co, cl, ov, review_a, review_b, vote_time) ==
    [session_id |-> session_id, paper_id |-> paper_id, reviewer_a |-> a,
     reviewer_b |-> b, technical_quality |-> tq, constructiveness |-> co,
     clarity |-> cl, overall_quality |-> ov, review_a |-> review_a,
     review_b |-> review_b, vote_time |-> vote_time]

\* datetime.isoformat(sep): the fraction is written only when it is not zero
isoformat(dt, sep) ==
    << dt.date, sep, dt.time >>
        \o (IF dt.microsecond = "000000" THEN << >> ELSE << ".", dt.microsecond >>)

\* a datetime without its microseconds
parse_datetime_Seconds(text) ==
    [date |-> text[1], time |-> text[3], microsecond |-> "000000"]

\* pydantic's datetime validation of a string: "T" or " " between date and time
parse_datetime(text) ==
    [date |-> text[1], time |-> text[3],
     microsecond |-> IF Len(text) >= 5 THEN text[5] ELSE "000000"]

\* the characters of a str field
Chars(field, value) == IF field \in { "review_a", "review_b" } THEN value ELSE << value >>

\* the value of a field read back from its text
Validate(field, chars) ==
    IF field = "vote_time" THEN parse_datetime(chars)
    ELSE IF field \in { "review_a", "review_b" } THEN chars ELSE chars[1]

(***************************************************************************)
(* VotesSqlite: rows of (id, the eleven columns)                           *)
(***************************************************************************)
\* what get_all_votes returns: a list of votes
VoteList(votes_read) == [kind |-> "list", votes |-> votes_read]

\* INSERT INTO votes: the id is AUTOINCREMENT, one more than the largest id; a
\* datetime parameter goes through sqlite3's adapter, isoformat(" ")
VotesSqlite_store_vote(table, vote) ==
    LET id == IF table = {} THEN 1 ELSE MaxOf({ row.id : row \in table }) + 1
        Column(field) ==
            IF field = "vote_time" THEN isoformat(vote[field], " ")
            ELSE Chars(field, vote[field])
    IN  table \cup { [id |-> id,
                      columns |-> [i \in 1..Len(VoteFields) |-> Column(VoteFields[i])]] }

\* Vote(**dict(zip(column names, row)))
VoteOfRow(row) ==
    [field \in { VoteFields[i] : i \in 1..Len(VoteFields) } |->
        LET i == CHOOSE j \in 1..Len(VoteFields) : VoteFields[j] = field
        IN  Validate(field, row.columns[i])]

RECURSIVE OrderById(_)
\* ORDER BY id
OrderById(table) ==
    IF table = {} THEN << >>
    ELSE LET first == CHOOSE row \in table : \A other \in table : row.id <= other.id
         IN  << first >> \o OrderById(table \ {first})

\* SELECT without ORDER BY id: rows in the reverse order
VotesSqlite_get_all_votes_Unordered(table) ==
    LET rows == OrderById(table)
    IN  VoteList([i \in 1..Len(rows) |-> VoteOfRow(rows[Len(rows) + 1 - i])])

VotesSqlite_get_all_votes(table) ==
    LET rows == OrderById(table)
    IN  VoteList([i \in 1..Len(rows) |-> VoteOfRow(rows[i])])

(***************************************************************************)
(* VotesJSONL: the file as a sequence of characters                        *)
(***************************************************************************)
\* Vote.model_dump_json(): every value is a JSON string, vote_time through
\* serialize_datetime; quote, backslash and newline are escaped
model_dump_json(vote) ==
    LET Escape(c) ==
            IF c = "\"" THEN "\\\"" ELSE IF c = "\\" THEN "\\\\"
            ELSE IF c = "\n" THEN "\\n" ELSE c
        JsonString(chars) ==
            << "\"" >> \o [i \in 1..Len(chars) |-> Escape(chars[i])] \o << "\"" >>
        JsonValue(field) ==
            IF field = "vote_time" THEN JsonString(isoformat(vote[field], "T"))
            ELSE JsonString(Chars(field, vote[field]))
        RECURSIVE JsonMembers(_)
        JsonMembers(i) ==
            IF i > Len(VoteFields) THEN << >>
            ELSE (IF i = 1 THEN << >> ELSE << "," >>)
                 \o JsonString(<< VoteFields[i] >>) \o << ":" >>
                 \o JsonValue(VoteFields[i]) \o JsonMembers(i + 1)
    IN  << "{" >> \o JsonMembers(1) \o << "}" >>

\* open(file_path, "a"): f.write(vote.model_dump_json() + "\n")
VotesJSONL_store_vote(file, vote) == file \o model_dump_json(vote) \o << "\n" >>

\* Vote.model_validate_json(text): the members "key":"value" of one object,
\* validated as the fields of a Vote, or a ValidationError
model_validate_json(text) ==
    LET Unescape(c) ==
            IF c = "\\\"" THEN "\"" ELSE IF c = "\\\\" THEN "\\"
            ELSE IF c = "\\n" THEN "\n" ELSE c
        RECURSIVE ReadString(_, _)
        \* the characters of a string whose opening quote is before position i,
        \* and the position after its closing quote
        ReadString(i, acc) ==
            IF i > Len(text) THEN [error |-> TRUE, chars |-> acc, next |-> i]
            ELSE IF text[i] = "\"" THEN [error |-> FALSE, chars |-> acc, next |-> i + 1]
            ELSE ReadString(i + 1, Append(acc, Unescape(text[i])))
        RECURSIVE ReadMembers(_, _)
        ReadMembers(i, acc) ==
            IF i + 4 > Len(text) \/ text[i] # "\"" THEN [error |-> TRUE, members |-> acc]
            ELSE LET key == ReadString(i + 1, << >>)
                 IN  IF key.error \/ key.next + 1 > Len(text) \/ text[key.next] # ":"
                        \/ text[key.next + 1] # "\""
                     THEN [error |-> TRUE, members |-> acc]
                     ELSE LET value == ReadString(key.next + 2, << >>)
                              all == acc \cup { << key.chars[1], value.chars >> }
                          IN  IF value.error \/ value.next > Len(text)
                              THEN [error |-> TRUE, members |-> acc]
                              ELSE IF text[value.next] = "}" /\ value.next = Len(text)
                              THEN [error |-> FALSE, members |-> all]
                              ELSE IF text[value.next] = ","
                              THEN ReadMembers(value.next + 1, all)
                              ELSE [error |-> TRUE, members |-> acc]
        error == [kind |-> "ValidationError", text |-> text]
    IN  IF Len(text) < 2 \/ text[1] # "{" THEN error
        ELSE LET read == ReadMembers(2, {})
                 keys == { m[1] : m \in read.members }
             IN  IF read.error \/ keys # { VoteFields[i] : i \in 1..Len(VoteFields) }
                 THEN error
                 ELSE [field \in keys |->
                         Validate(field, (CHOOSE m \in read.members : m[1] = field)[2])]

RECURSIVE strip(_)
\* str.strip()
strip(line) ==
    LET Whitespace == { " ", "\t", "\r", "\n" }
    IN  IF line = << >> THEN line
        ELSE IF line[1] \in Whitespace THEN strip(Tail(line))
        ELSE IF line[Len(line)] \in Whitespace THEN strip(SubSeq(line, 1, Len(line) - 1))
        ELSE line

\* for line in f: the lines of the file, each with its newline (the last one
\* without, when the file does not end with a newline)
Lines(file) ==
    LET ends == { i \in 1..Len(file) : file[i] = "\n" \/ i = Len(file) }
        End(k) == CHOOSE e \in ends : Cardinality({ x \in ends : x < e }) = k - 1
    IN  [k \in 1..Cardinality(ends) |->
            SubSeq(file, IF k = 1 THEN 1 ELSE End(k - 1) + 1, End(k))]

IsError(x) == "kind" \in DOMAIN x /\ x.kind = "ValidationError"

\* the votes of the file; a line that is not a vote raises its error
VotesJSONL_get_all_votes(file) ==
    LET lines == Lines(file)
        parsed == [i \in 1..Len(lines) |-> model_validate_json(strip(lines[i]))]
    IN  IF \E i \in 1..Len(lines) : IsError(parsed[i])
        THEN parsed[CHOOSE i \in 1..Len(lines) :
                       /\ IsError(parsed[i])
                       /\ \A j \in 1..(i - 1) : ~IsError(parsed[j])]
        ELSE VoteList(parsed)

(***************************************************************************)
(* Papers (papers.py)                                                      *)
(***************************************************************************)
REVIEWER_FIELDS ==
    << "human_reviewer", "barebones", "liang_etal", "multi_agent_without_knowledge" >>

NewPaper(paper_id, human_reviewer, barebones, liang_etal, multi_agent) ==
    [paper_id |-> paper_id, human_reviewer |-> human_reviewer,
     barebones |-> barebones, liang_etal |-> liang_etal,
     multi_agent_without_knowledge |-> multi_agent]

Elements(list) == { list[i] : i \in 1..Len(list) }

\* Paper.get_all_valid_reviewer_ids, as the set the callers make of it
get_all_valid_reviewer_ids(paper) ==
    { REVIEWER_FIELDS[i] : i \in
        { j \in 1..Len(REVIEWER_FIELDS) :
            LET value == paper[REVIEWER_FIELDS[j]]
            IN  /\ Len(value) > 0
                /\ \E item \in Elements(value) : Len(strip(item)) > 0 } }

\* the papers of paper_reviews.jsonl: one with two valid reviewers (a blank
\* review among those of the second), one with one, one with none
PaperTwo ==
    NewPaper("p2", << << "h", "\n", "\"" >> >>, << << "b", "\\" >>, << " " >> >>,
             << >>, << >>)
PaperOne == NewPaper("p1", << >>, << >>, << << "l" >> >>, << >>)
PaperNone == NewPaper("p0", << >>, << << " " >> >>, << >>, << >>)

(***************************************************************************)
(* Sessions (sessions.py, app.py): the custom data of a Session            *)
(***************************************************************************)
\* Session.__setitem__ on a session with custom data sess; value is << >> for
\* None and << v >> for a value v.  The result: the exception raised ("" when
\* the call returns), the custom data after the call, and the attribute the
\* call set (<< >> when none): session_id and start_time are immutable, end_time,
\* ip_address and user_agent are attributes kept outside the custom data, and
\* a custom key cannot be set to None
SetItem(sess, key, value) ==
    IF key \in { "session_id", "start_time" }
    THEN [raised |-> "AttributeError", data |-> sess, attribute |-> << >>]
    ELSE IF key \in { "end_time", "ip_address", "user_agent" }
    THEN [raised |-> "", data |-> sess, attribute |-> << key, value >>]
    ELSE IF Len(value) = 0
    THEN [raised |-> "ValueError", data |-> sess, attribute |-> << >>]
    ELSE [raised |-> "",
          data |-> [k \in DOMAIN sess \cup {key} |-> IF k = key THEN value[1] ELSE sess[k]],
          attribute |-> << >>]

\* Session.__delitem__: the five names a Session keeps outside its custom data
\* cannot be deleted; a custom key that is not there is a KeyError of the dict
DelItem(sess, key) ==
    IF key \in { "session_id", "start_time", "end_time", "ip_address", "user_agent" }
    THEN [raised |-> "AttributeError", data |-> sess]
    ELSE IF key \notin DOMAIN sess
    THEN [raised |-> "KeyError", data |-> sess]
    ELSE [raised |-> "", data |-> [k \in DOMAIN sess \ {key} |-> sess[k]]]

\* Session.pop: self._data.pop(key, default) removes the key and returns its
\* value, or returns default (<< >> for None) when the key is not there
Pop(sess, key, default) ==
    IF key \in { "session_id", "start_time", "end_time", "ip_address", "user_agent" }
    THEN [raised |-> "AttributeError", data |-> sess, result |-> << >>]
    ELSE IF key \in DOMAIN sess
    THEN [raised |-> "", data |-> [k \in DOMAIN sess \ {key} |-> sess[k]],
          result |-> << sess[key] >>]
    ELSE [raised |-> "", data |-> sess, result |-> default]

\* Session.clear: the custom data is emptied, the attributes stay
Clear(sess) == [raised |-> "", data |-> [k \in {} |-> sess[k]]]

RECURSIVE Update(_, _)
\* Session.update: the items of data (pairs << key, value >> in the order of
\* the dict) are set one by one through __setitem__, session_id and
\* start_time are passed over; an item that raises ends the call and leaves
\* the items before it set.  attributes lists the attributes the call set
Update(sess, data) ==
    IF Len(data) = 0
    THEN [raised |-> "", data |-> sess, attributes |-> << >>]
    ELSE LET key == data[1][1]
             item == IF key \in { "session_id", "start_time" }
                     THEN [raised |-> "", data |-> sess, attribute |-> << >>]
                     ELSE SetItem(sess, key, data[1][2])
         IN  IF item.raised # ""
             THEN [raised |-> item.raised, data |-> item.data, attributes |-> << >>]
             ELSE LET rest == Update(item.data, Tail(data))
                  IN  [raised |-> rest.raised, data |-> rest.data,
                       attributes |->
                           (IF Len(item.attribute) = 0 THEN << >> ELSE << item.attribute >>)
                               \o rest.attributes]

AppendNew(seq, x) == IF x \in Elements(seq) THEN seq ELSE Append(seq, x)

RECURSIVE KeyOrder(_, _)
\* the keys of self._ratings after the replay of the first n votes, in the
\* order the dict holds them: a vote inserts reviewer_a, then reviewer_b
KeyOrder(all_votes, n) ==
    IF n = 0 THEN << >>
    ELSE AppendNew(AppendNew(KeyOrder(all_votes, n - 1), all_votes[n].reviewer_a),
                   all_votes[n].reviewer_b)

RECURSIVE Orderings(_)
Orderings(S) ==
    IF S = {} THEN { << >> }
    ELSE UNION { { << x >> \o p : p \in Orderings(S \ {x}) } : x \in S }

\* the orders self._ratings can hold its keys in when elo_sys.order lists the
\* keys inserted first: the others follow them
KeyOrders(elo_sys) ==
    { elo_sys.order \o p :
        p \in Orderings(DOMAIN elo_sys.ratings \ Elements(elo_sys.order)) }

\* the engine a session holds: EloSystem(votes_sqlite); order lists the keys
\* of self._ratings as the dict holds them
NewEloSystem(all_votes) ==
    LET u == compute_ratings(DefaultWeights, EmptyMap, EmptyMap, all_votes)
    IN  [votes |-> all_votes, ratings |-> u.ratings, vote_counts |-> u.vote_counts,
         order |-> KeyOrder(all_votes, Len(all_votes))]

\* the session whose engine has ratings r (lazy inserts of a search, made in
\* place in session["elo_sys"])
WithRatings(sess, r) == [sess EXCEPT !["elo_sys"].ratings = r]

(***************************************************************************)
(* app.select_new_paper                                                    *)
(***************************************************************************)
\* the outcomes of one call: how it ended, the session as the call left it, and
\* the positions examined with what get_fair_pair returned at each
Selected(kind, sess, examined, a_review, b_review) ==
    [kind |-> kind, session |-> sess, examined |-> examined,
     reviewer_a_review |-> a_review, reviewer_b_review |-> b_review]

RECURSIVE select_new_paper_Unbounded(_, _, _, _, _)
\* select_new_paper without the attempts check: the search goes round once more
select_new_paper_Unbounded(registry, sess, new_paper_pos, attempts, examined) ==
    LET paper_registry_size == Len(registry)
    IN  IF attempts > paper_registry_size \/ paper_registry_size = 0
        THEN { Selected("ValueError", sess, examined, << >>, << >>) }
        ELSE
          LET pos == new_paper_pos % paper_registry_size
              s1 == SetItem(sess, "cur_paper_pos", << pos >>).data
              cur_sampled_paper == registry[pos + 1]
              valid_reviewer_ids == get_all_valid_reviewer_ids(cur_sampled_paper)
              outs == get_fair_pair(s1["elo_sys"].ratings, DefaultStep, {},
                                    Some(valid_reviewer_ids), Some(valid_reviewer_ids))
          IN  UNION { LET s2 == WithRatings(s1, o.ratings)
                          ex == Append(examined, << pos, o.result.kind >>)
                      IN  IF o.result.kind = "None"
                          THEN select_new_paper_Unbounded(registry, s2, pos + 1,
                                                          attempts + 1, ex)
                          ELSE IF o.result.kind = "IndexError"
                          THEN { Selected("IndexError", s2, ex, << >>, << >>) }
                          ELSE { Selected("selected",
                                   [k \in DOMAIN s2 \cup
                                          {"reviewer_a", "reviewer_b", "reviewer_a_review",
                                           "reviewer_b_review", "paper_id",
                                           "voted_pair_of_reviews"} |->
                                      IF k = "reviewer_a" THEN o.result.a
                                      ELSE IF k = "reviewer_b" THEN o.result.b
                                      ELSE IF k = "reviewer_a_review" THEN ra
                                      ELSE IF k = "reviewer_b_review" THEN rb
                                      ELSE IF k = "paper_id" THEN cur_sampled_paper.paper_id
                                      ELSE IF k = "voted_pair_of_reviews" THEN {}
                                      ELSE s2[k]],
                                   ex, ra, rb) :
                                   ra \in Elements(cur_sampled_paper[o.result.a]),
                                   rb \in Elements(cur_sampled_paper[o.result.b]) }
                    : o \in outs }

RECURSIVE select_new_paper(_, _, _, _, _)
\* examined: the positions examined by the calls this one continues
select_new_paper(registry, sess, new_paper_pos, attempts, examined) ==
    LET paper_registry_size == Len(registry)
    IN  IF attempts >= paper_registry_size
        THEN { Selected("ValueError", sess, examined, << >>, << >>) }
        ELSE
          LET pos == new_paper_pos % paper_registry_size
              s1 == SetItem(sess, "cur_paper_pos", << pos >>).data
              cur_sampled_paper == registry[pos + 1]
              valid_reviewer_ids == get_all_valid_reviewer_ids(cur_sampled_paper)
              outs == get_fair_pair(s1["elo_sys"].ratings, DefaultStep, {},
                                    Some(valid_reviewer_ids), Some(valid_reviewer_ids))
          IN  UNION { LET s2 == WithRatings(s1, o.ratings)
                          ex == Append(examined, << pos, o.result.kind >>)
                      IN  IF o.result.kind = "None"
                          THEN select_new_paper(registry, s2, pos + 1, attempts + 1, ex)
                          ELSE IF o.result.kind = "IndexError"
                          THEN { Selected("IndexError", s2, ex, << >>, << >>) }
                          ELSE { Selected("selected",
                                   [k \in DOMAIN s2 \cup
                                          {"reviewer_a", "reviewer_b", "reviewer_a_review",
                                           "reviewer_b_review", "paper_id",
                                           "voted_pair_of_reviews"} |->
                                      IF k = "reviewer_a" THEN o.result.a
                                      ELSE IF k = "reviewer_b" THEN o.result.b
                                      ELSE IF k = "reviewer_a_review" THEN ra
                                      ELSE IF k = "reviewer_b_review" THEN rb
                                      ELSE IF k = "paper_id" THEN cur_sampled_paper.paper_id
                                      ELSE IF k = "voted_pair_of_reviews" THEN {}
                                      ELSE s2[k]],
                                   ex, ra, rb) :
                                   ra \in Elements(cur_sampled_paper[o.result.a]),
                                   rb \in Elements(cur_sampled_paper[o.result.b]) }
                    : o \in outs }

(***************************************************************************)
(* app.submit_vote, lines 283-354: the next pair of reviews                *)
(***************************************************************************)
MAX_ATTEMPTS == 10

\* sample_new_reviews: the pairs of reviews not voted yet, none of them blank
available_pairs(sess, paper, reviewer_a, reviewer_b) ==
    { << a, b >> \in Elements(paper[reviewer_a]) \X Elements(paper[reviewer_b]) :
        /\ << a, b >> \notin sess["voted_pair_of_reviews"]
        /\ Len(strip(a)) > 0
        /\ Len(strip(b)) > 0 }

RECURSIVE Resample(_, _, _)
\* for attempt in range(MAX_ATTEMPTS), from the sessions S the earlier attempts
\* can leave: the outcomes that found reviews, those that raised, and the
\* sessions left when the attempts are used up
Resample(S, paper, attempt) ==
    IF attempt > MAX_ATTEMPTS \/ S = {}
    THEN [found |-> {}, raised |-> {}, exhausted |-> S]
    ELSE
      LET valid_reviewer_ids == get_all_valid_reviewer_ids(paper)
          tries == { << sess, o >> \in
                       S \X UNION { get_fair_pair(x["elo_sys"].ratings, DefaultStep, {},
                                                  Some(valid_reviewer_ids),
                                                  Some(valid_reviewer_ids)) : x \in S } :
                       o \in get_fair_pair(sess["elo_sys"].ratings, DefaultStep, {},
                                           Some(valid_reviewer_ids),
                                           Some(valid_reviewer_ids)) }
          After(try) == WithRatings(try[1], try[2].ratings)
          Pairs(try) ==
              IF try[2].result.kind = "pair"
              THEN available_pairs(try[1], paper, try[2].result.a, try[2].result.b)
              ELSE {}
          rest == Resample({ After(try) : try \in
                               { x \in tries : x[2].result.kind # "IndexError"
                                               /\ Pairs(x) = {} } },
                           paper, attempt + 1)
      IN  [found |->
             rest.found \cup
             UNION { { [session |-> After(try), reviewer_a |-> try[2].result.a,
                        reviewer_b |-> try[2].result.b,
                        reviewer_a_review |-> p[1], reviewer_b_review |-> p[2]] :
                       p \in Pairs(try) } : try \in tries },
           raised |->
             rest.raised \cup
             { After(try) : try \in { x \in tries : x[2].result.kind = "IndexError" } },
           exhausted |-> rest.exhausted]

(***************************************************************************)
(* The arena: sessions over the two vote stores and the paper registry     *)
(***************************************************************************)
\* a judgement not selected
None == "<None>"

\* the four radio values of a submission: a complete one (the judgements that
\* count as half a win each) and incomplete ones
RadioChoices ==
    { << ARENA_RATING_CHOICES[3], ARENA_RATING_CHOICES[4],
         ARENA_RATING_CHOICES[3], ARENA_RATING_CHOICES[4] >>,
      << ARENA_RATING_CHOICES[1], None, ARENA_RATING_CHOICES[3], ARENA_RATING_CHOICES[1] >>,
      << None, None, None, None >> }

\* datetime.now()
NowChoices ==
    { [date |-> "2024-05-01", time |-> "12:00:01", microsecond |-> "000123"] }

\* most votes a session submits
MaxSubmits == 1

\* the votes earlier runs of the application left in both stores
StoredBefore ==
    << NewVote("s0", "p2", "human_reviewer", "barebones", ARENA_RATING_CHOICES[1],
               ARENA_RATING_CHOICES[1], ARENA_RATING_CHOICES[3], ARENA_RATING_CHOICES[1],
               << "h", "\n", "\"" >>, << "b", "\\" >>,
               [date |-> "2024-04-30", time |-> "09:30:00", microsecond |-> "000000"]),
       NewVote("s0", "p2", "barebones", "liang_etal", ARENA_RATING_CHOICES[1],
               ARENA_RATING_CHOICES[1], ARENA_RATING_CHOICES[1], ARENA_RATING_CHOICES[1],
               << "b", "\\" >>, << "l" >>,
               [date |-> "2024-04-30", time |-> "09:31:00", microsecond |-> "250000"]) >>

\* the application started with the first stored votes of StoredBefore in
\* both stores and registry as its papers
Arena(stored, registry) ==
    /\ weights = DefaultWeights
    /\ votes_db = << >>
    /\ votes = << >>
    /\ ratings = EmptyMap
    /\ vote_counts = EmptyMap
    /\ ret = [op |-> "__init__"]
    /\ call = EmptyMap
    /\ \/ stored = 0 /\ votes_sqlite = {} /\ votes_jsonl = << >>
       \/ /\ stored = 1
          /\ votes_sqlite = VotesSqlite_store_vote({}, StoredBefore[1])
          /\ votes_jsonl = VotesJSONL_store_vote(<< >>, StoredBefore[1])
       \/ /\ stored = 2
          /\ votes_sqlite =
                VotesSqlite_store_vote(VotesSqlite_store_vote({}, StoredBefore[1]),
                                       StoredBefore[2])
          /\ votes_jsonl =
                VotesJSONL_store_vote(VotesJSONL_store_vote(<< >>, StoredBefore[1]),
                                      StoredBefore[2])
    /\ paper_registry = registry
    /\ session = EmptyMap

\* the arenas a session is followed in: every number of stored votes over the
\* registries that end init_demo early (no paper, no paper with two valid
\* reviewers), and the registries with such a paper over empty stores and over
\* both votes stored
Arenas ==
    ((0..Len(StoredBefore)) \X { << PaperNone, PaperOne >>, << PaperNone >>, << >> })
      \cup { << 0, << PaperOne, PaperTwo >> >>, << Len(StoredBefore), << PaperTwo >> >> }

InitArena == \E arena_of \in Arenas : Arena(arena_of[1], arena_of[2])

engine == << weights, votes_db, votes, ratings, vote_counts >>

(***************************************************************************)
(* The handlers of a session as threads                                    *)
(***************************************************************************)
\* app.py, sessions.py and elo_system.py take no lock, and the listeners of
\* build_arena_ui are registered one by one: handlers of one session overlap.
\* A thread can be switched out wherever the interpreter runs a Python-level
\* call (Session.__getitem__ and __setitem__, the logging calls, the default
\* factory of a missing rating, expected_score) or jumps back in a loop.  A
\* step of a thread holds one access to what another handler of the session
\* can reach (the custom data of the session, the maps and the vote list of
\* its engine, the stores), with the computation on locals that follows it.
\* The paper registry and the objects a session holds under "elo_sys",
\* "votes_sqlite" and "votes_jsonl" are never replaced.  save_session pickles
\* the session into sessions.db, which no handler reads (load_session is never
\* called): it changes nothing here.  The listeners of the two dropdowns
\* (lines 598-608) only read the session.
\*
\* A thread is << session id, number >>: number 0 is init_demo, whose frame
\* stays when it has ended and counts the handler calls of the session that
\* followed; number n is the n-th of these calls, and its frame is dropped
\* when the handler returns or raises, ret telling how it ended.

\* most handler calls of a session after init_demo
MaxCalls == 2

Loader(s) == << s, 0 >>
Running(s) == { t \in DOMAIN call : t[1] = s /\ t[2] > 0 }

\* the thread of a handler called now
NewThread(s) == << s, call[Loader(s)].started + 1 >>

\* the page of session s is loaded and a handler can start
CanStart(s) == s \in DOMAIN session /\ call[Loader(s)].started < MaxCalls

SetCall(t, frame) == [x \in DOMAIN call \cup {t} |-> IF x = t THEN frame ELSE call[x]]

\* a handler of session s starts with frame, or starts and ends in one step
Start(s, frame) ==
    [x \in DOMAIN call \cup {NewThread(s)} |->
        IF x = NewThread(s) THEN frame
        ELSE IF x = Loader(s) THEN [call[x] EXCEPT !.started = @ + 1]
        ELSE call[x]]
StartEnd(s) == [call EXCEPT ![Loader(s)].started = @ + 1]
SetSession(s, sess) ==
    [x \in DOMAIN session \cup {s} |-> IF x = s THEN sess ELSE session[x]]

Raise(op, error) == [op |-> op, pc |-> "raised", error |-> error]

\* record f with the fields of g set, and f restricted to the fields K
Upd(f, g) == [k \in DOMAIN f \cup DOMAIN g |-> IF k \in DOMAIN g THEN g[k] ELSE f[k]]
Only(f, K) == [k \in DOMAIN f \cap K |-> f[k]]

\* a step of thread t: the frame it goes on with (none when the handler ends)
\* and what it reports
Go(frame) == [to |-> << frame >>, ret |-> << >>]
GoTelling(frame, told) == [to |-> << frame >>, ret |-> << told >>]
End(told) == [to |-> << >>, ret |-> << told >>]

Take(t, o) ==
    /\ call' = IF o.to = << >> THEN [x \in DOMAIN call \ {t} |-> call[x]]
               ELSE [call EXCEPT ![t] = o.to[1]]
    /\ ret' = IF o.ret = << >> THEN [op |-> "step", session_id |-> t[1]]
              ELSE o.ret[1]

\* thread t is a handler at pc
At(t, pc) == t \in DOMAIN call /\ t[2] > 0 /\ call[t].pc = pc

\* how the handler with frame f ends in session s: its vote when it is a
\* submit_vote, and the position its select_new_paper was called with and the
\* positions examined when it ends inside one
Report(f, s, kind) ==
    LET r == Upd(Only(f, { "op", "vote", "examined" }), [session_id |-> s, kind |-> kind])
    IN  IF "start" \in DOMAIN f THEN Upd(r, [new_paper_pos |-> f.start]) ELSE r

\* the engine e with rating v stored under key x; a new key goes last in the
\* order of the dict
StoreRating(e, x, v) ==
    [e EXCEPT !.ratings = [k \in DOMAIN e.ratings \cup {x} |->
                              IF k = x THEN v ELSE e.ratings[k]],
              !.order = IF x \in DOMAIN e.ratings THEN @ ELSE Append(@, x)]

\* init_demo, lines 167-182 up to the first read: the votes of the SQLite
\* store.  The session is made here and given to the other handlers when
\* init_demo returns
InitDemo(s) ==
    /\ s \notin DOMAIN session
    /\ Loader(s) \notin DOMAIN call
    /\ call' = SetCall(Loader(s), [op |-> "init_demo", pc |-> "jsonl",
                                   sqlite_votes |-> VotesSqlite_get_all_votes(votes_sqlite)])
    /\ ret' = [op |-> "init_demo:sqlite", session_id |-> s]
    /\ UNCHANGED << engine, arena >>

\* line 182: the votes of the JSONL store and the assertion
InitDemoAssert(s) ==
    /\ Loader(s) \in DOMAIN call
    /\ call[Loader(s)].pc = "jsonl"
    /\ LET jsonl_votes == VotesJSONL_get_all_votes(votes_jsonl)
       IN  call' = SetCall(Loader(s),
              IF IsError(jsonl_votes) THEN Raise("init_demo", "ValidationError")
              ELSE IF call[Loader(s)].sqlite_votes # jsonl_votes
              THEN Raise("init_demo", "AssertionError")
              ELSE [op |-> "init_demo", pc |-> "elo_sys"])
    /\ ret' = [op |-> "init_demo:assert", session_id |-> s]
    /\ UNCHANGED << engine, arena >>

\* lines 185-212: the engine over the SQLite store, the first paper; the keys
\* the search of select_new_paper inserted follow those of the replay
InitDemoSelect(s) ==
    /\ Loader(s) \in DOMAIN call
    /\ call[Loader(s)].pc = "elo_sys"
    /\ IF Len(paper_registry) = 0
       THEN /\ call' = SetCall(Loader(s), Raise("init_demo", "ValueError"))
            /\ ret' = [op |-> "init_demo", session_id |-> s, kind |-> "ValueError",
                       new_paper_pos |-> 0, examined |-> << >>]
            /\ UNCHANGED session
       ELSE \E cur_paper_pos \in 0..(Len(paper_registry) - 1) :
              LET sess == [elo_sys |->
                              NewEloSystem(VotesSqlite_get_all_votes(votes_sqlite).votes),
                           voted_pair_of_reviews |-> {}]
              IN  \E o \in select_new_paper(paper_registry, sess, cur_paper_pos, 0, << >>) :
                    /\ ret' = [op |-> "init_demo", session_id |-> s, kind |-> o.kind,
                               new_paper_pos |-> cur_paper_pos, examined |-> o.examined]
                    /\ IF o.kind = "selected"
                       THEN /\ \E order \in KeyOrders(o.session["elo_sys"]) :
                                 session' = SetSession(s,
                                    [o.session EXCEPT !["elo_sys"].order = order])
                            /\ call' = SetCall(Loader(s),
                                  [op |-> "init_demo", pc |-> "done", started |-> 0])
                       ELSE /\ call' = SetCall(Loader(s), Raise("init_demo", o.kind))
                            /\ UNCHANGED session
    /\ UNCHANGED << engine, votes_sqlite, votes_jsonl, paper_registry >>

(***************************************************************************)
(* Threads: select_new_paper and get_fair_pair on the session's engine     *)
(***************************************************************************)
\* the frame of a handler entering select_new_paper(session, new_paper_pos)
SelectFrame(f, new_paper_pos) ==
    Upd(Only(f, { "op", "vote" }),
        [pc |-> "select_new_paper", fn |-> "select_new_paper", start |-> new_paper_pos,
         new_paper_pos |-> new_paper_pos, attempts |-> 0, examined |-> << >>])

\* next_paper (step = 1), prev_paper (step = -1), lines 142 and 155: the read
\* of session["cur_paper_pos"]
TurnPaper(s, op, step) ==
    /\ CanStart(s)
    /\ call' = Start(s,
          SelectFrame([op |-> op],
                      (session[s]["cur_paper_pos"] + step) % Len(paper_registry)))
    /\ ret' = [op |-> "step", session_id |-> s]
    /\ UNCHANGED << engine, arena >>

NextPaper(s) == TurnPaper(s, "next_paper", 1)
PrevPaper(s) == TurnPaper(s, "prev_paper", -1)

\* select_new_paper, lines 80-93: the attempts check, then
\* session["cur_paper_pos"] = new_paper_pos
SelectNewPaper(t) ==
    /\ At(t, "select_new_paper")
    /\ LET f == call[t]
           paper_registry_size == Len(paper_registry)
           pos == f.new_paper_pos % paper_registry_size
       IN  IF f.attempts >= paper_registry_size
           THEN /\ Take(t, End(Report(f, t[1], "ValueError")))
                /\ UNCHANGED session
           ELSE /\ session' = [session EXCEPT ![t[1]] =
                                  SetItem(@, "cur_paper_pos", << pos >>).data]
                /\ Take(t, Go(Upd(f, [pc |-> "get_fair_pair", pos |-> pos])))
    /\ UNCHANGED << engine, votes_sqlite, votes_jsonl, paper_registry >>

\* candidates_a and candidates_b of the get_fair_pair call of frame f: the
\* valid reviewers of the paper at its position
Pool(f) == get_all_valid_reviewer_ids(paper_registry[f.pos + 1])

\* the review pairs sample_new_reviews tests, in the order of its loops
PairList(list_a, list_b) ==
    [i \in 1..(Len(list_a) * Len(list_b)) |->
        << list_a[((i - 1) \div Len(list_b)) + 1], list_b[((i - 1) % Len(list_b)) + 1] >>]

\* submit_vote, lines 310-345, after an attempt of frame f that found no
\* reviews: the next attempt, or the next paper when MAX_ATTEMPTS are used up
NextAttempt(f) ==
    IF f.attempt < MAX_ATTEMPTS
    THEN Upd(Only(f, { "op", "vote", "fn", "pos" }),
             [pc |-> "get_fair_pair", attempt |-> f.attempt + 1])
    ELSE Upd(SelectFrame(f, (f.pos + 1) % Len(paper_registry)), [pos |-> f.pos])

\* get_fair_pair returns result to the caller of frame f in session s:
\* select_new_paper (lines 107-126: the next position, or the two reviews
\* sampled and the writes of lines 129-136 to come) or the loop of submit_vote
\* (lines 318-326: the next attempt, or sample_new_reviews); IndexError ends
\* the handler
FairPairReturns(f, s, result) ==
    LET paper == paper_registry[f.pos + 1]
        examined == Append(f.examined, << f.pos, result.kind >>)
        caller == Only(f, { "op", "vote", "fn", "pos", "start", "new_paper_pos",
                            "attempts", "examined", "attempt" })
    IN  IF f.fn = "select_new_paper"
        THEN IF result.kind = "IndexError"
             THEN { End(Report(Upd(f, [examined |-> examined]), s, "IndexError")) }
             ELSE IF result.kind = "None"
             THEN { Go(Upd(caller, [pc |-> "select_new_paper", new_paper_pos |-> f.pos + 1,
                                    attempts |-> f.attempts + 1, examined |-> examined])) }
             ELSE { Go(Upd(caller,
                       [pc |-> "write", examined |-> examined,
                        reviewer_a_sampled_review |-> a_review,
                        reviewer_b_sampled_review |-> b_review,
                        writes |-> << << "reviewer_a", result.a >>,
                                      << "reviewer_b", result.b >>,
                                      << "reviewer_a_review", a_review >>,
                                      << "reviewer_b_review", b_review >>,
                                      << "paper_id", paper.paper_id >>,
                                      << "voted_pair_of_reviews", {} >> >>])) :
                     a_review \in Elements(paper[result.a]),
                     b_review \in Elements(paper[result.b]) }
        ELSE IF result.kind = "IndexError"
             THEN { End(Report(f, s, "IndexError")) }
             ELSE IF result.kind = "None"
             THEN { Go(NextAttempt(f)) }
             ELSE { Go(Upd(caller,
                       [pc |-> "sample_new_reviews", reviewer_a |-> result.a,
                        reviewer_b |-> result.b,
                        pairs |-> PairList(paper[result.a], paper[result.b]),
                        available_pairs |-> {}])) }

\* get_fair_pair, lines 186-200: the keys of the ratings, the empty pool and
\* the engine without ratings
PairKeys(t) ==
    /\ At(t, "get_fair_pair")
    /\ LET f == call[t]
           all_reviewers == DOMAIN session[t[1]]["elo_sys"].ratings
       IN  \E o \in
             IF Pool(f) = {} THEN FairPairReturns(f, t[1], NoPair)
             ELSE IF all_reviewers = {}
             THEN UNION { IF Pool(f) \ {reviewer_a} = {}
                          THEN FairPairReturns(f, t[1], Raised)
                          ELSE UNION { FairPairReturns(f, t[1], Pair(reviewer_a, reviewer_b)) :
                                         reviewer_b \in Pool(f) \ {reviewer_a} } :
                            reviewer_a \in Pool(f) }
             ELSE { Go(Upd(f, [pc |-> "max"])) } :
             Take(t, o)
    /\ UNCHANGED << engine, arena >>

\* line 202: max_rating = max(self._ratings.values())
PairMax(t) ==
    /\ At(t, "max")
    /\ Take(t, Go(Upd(call[t],
          [pc |-> "min",
           max_rating |-> MaxOf(Values(session[t[1]]["elo_sys"].ratings))])))
    /\ UNCHANGED << engine, arena >>

\* line 203: min_rating = min(self._ratings.values())
PairMin(t) ==
    /\ At(t, "min")
    /\ Take(t, Go(Upd(call[t],
          [pc |-> "for", for_count |-> 0,
           min_rating |-> MinOf(Values(session[t[1]]["elo_sys"].ratings))])))
    /\ UNCHANGED << engine, arena >>

\* the while loop of frame f in session s from the end of one pass of the
\* comprehension (todo is empty): a pair from the eligible ones, the next
\* pass with a wider window, or the next attempt.  A pass over a pool that
\* holds reviewer_a alone reads nothing, and every later attempt reads that
\* one rating and computes nothing from it: those are taken with this one
PassDone(f, s) ==
    LET others == Pool(f) \ {f.reviewer_a}
        locals == { "reviewer_a", "base_rating", "max_possible_diff", "current_diff",
                    "todo", "eligible_reviewers", "key" }
    IN  IF f.eligible_reviewers # {}
        THEN UNION { FairPairReturns(f, s, Pair(f.reviewer_a, reviewer_b)) :
                       reviewer_b \in f.eligible_reviewers }
        ELSE IF others # {} /\ f.current_diff + DefaultStep <= f.max_possible_diff
        THEN { Go(Upd(f, [pc |-> "while", current_diff |-> f.current_diff + DefaultStep,
                          todo |-> others, eligible_reviewers |-> {}])) }
        ELSE { Go(Upd(Only(f, DOMAIN f \ locals),
                      [pc |-> "for",
                       for_count |-> IF Cardinality(Pool(f)) = 1 THEN max_attempts
                                     ELSE f.for_count + 1])) }

\* lines 208-217: base_rating is read as rating; the bound of the window and
\* the first pass
BaseRead(f, s, rating) ==
    LET g == Upd(f, [base_rating |-> rating,
                     max_possible_diff |->
                        CeilToStep(Max2(f.max_rating - rating, rating - f.min_rating),
                                   DefaultStep),
                     current_diff |-> 0, todo |-> Pool(f) \ {f.reviewer_a},
                     eligible_reviewers |-> {}])
    IN  IF g.todo = {} THEN PassDone(g, s) ELSE { Go(Upd(g, [pc |-> "while"])) }

\* lines 220-227: self._ratings[r] is read as rating in the pass of frame f
RatingRead(f, s, r, rating) ==
    LET g == Upd(f, [todo |-> f.todo \ {r},
                     eligible_reviewers |->
                        IF Abs(rating - f.base_rating) <= f.current_diff
                        THEN f.eligible_reviewers \cup {r} ELSE f.eligible_reviewers])
    IN  IF g.todo = {} THEN PassDone(g, s) ELSE { Go(Upd(g, [pc |-> "while"])) }

\* lines 205-208: an attempt, reviewer_a chosen and self._ratings[reviewer_a]
\* read; a missing key enters the default factory with nothing stored yet
PairAttempt(t) ==
    /\ At(t, "for")
    /\ LET f == call[t]
           r == session[t[1]]["elo_sys"].ratings
       IN  \E o \in
             IF f.for_count >= max_attempts THEN FairPairReturns(f, t[1], NoPair)
             ELSE UNION { IF reviewer_a \in DOMAIN r
                          THEN BaseRead(Upd(f, [reviewer_a |-> reviewer_a]), t[1],
                                        r[reviewer_a])
                          ELSE { Go(Upd(f, [pc |-> "default", reviewer_a |-> reviewer_a,
                                            key |-> reviewer_a])) } :
                            reviewer_a \in Pool(f) } :
             Take(t, o)
    /\ UNCHANGED << engine, arena >>

\* lines 220-227: one reviewer r of candidates_b in a pass of the
\* comprehension, self._ratings[r] read
PairRead(t) ==
    /\ At(t, "while")
    /\ LET f == call[t]
           r == session[t[1]]["elo_sys"].ratings
       IN  \E x \in f.todo :
             \E o \in IF x \in DOMAIN r THEN RatingRead(f, t[1], x, r[x])
                      ELSE { Go(Upd(f, [pc |-> "default", key |-> x])) } :
               Take(t, o)
    /\ UNCHANGED << engine, arena >>

\* lines 208 and 224, the key was missing: _default_rating returns (lines
\* 90-91) and the defaultdict stores its value under the key and gives it as
\* the value read; when another thread stored the key meanwhile, CPython up to
\* 3.12 stores the default over it and CPython 3.13 keeps the stored rating
PairDefault(t) ==
    /\ At(t, "default")
    /\ LET f == call[t]
           s == t[1]
           elo_sys == session[s]["elo_sys"]
           Read(rating) == IF f.key = f.reviewer_a THEN BaseRead(f, s, rating)
                           ELSE RatingRead(f, s, f.key, rating)
       IN  \/ /\ session' = [session EXCEPT ![s]["elo_sys"] =
                                StoreRating(elo_sys, f.key, initial_rating)]
              /\ \E o \in Read(initial_rating) : Take(t, o)
           \/ /\ f.key \in DOMAIN elo_sys.ratings
              /\ UNCHANGED session
              /\ \E o \in Read(elo_sys.ratings[f.key]) : Take(t, o)
    /\ UNCHANGED << engine, votes_sqlite, votes_jsonl, paper_registry >>

\* Session.__setitem__, the next of the writes of lines 129-136 or 351-354.  A
\* new set under "voted_pair_of_reviews" leaves the threads that hold the
\* earlier one with a set the session no longer has.  After the last write of
\* select_new_paper the handler returns (next_paper, prev_paper) or reads the
\* reviewers back (submit_vote, lines 346-349); after the last write of
\* submit_vote the handler returns
SessionWrite(t) ==
    /\ At(t, "write")
    /\ LET f == call[t]
           s == t[1]
           key == f.writes[1][1]
           rest == Upd(f, [writes |-> Tail(f.writes)])
           o == IF rest.writes # << >> THEN Go(rest)
                ELSE IF f.op # "submit_vote" THEN End(Report(f, s, "selected"))
                ELSE IF f.fn = "select_new_paper"
                THEN GoTelling(
                       Upd(Only(f, { "op", "vote", "reviewer_a_sampled_review",
                                     "reviewer_b_sampled_review" }),
                           [pc |-> "read", then |-> "write",
                            reads |-> << "reviewer_a", "reviewer_b" >>]),
                       Upd(Report(f, s, "selected"), [op |-> "select_new_paper"]))
                ELSE End(Report(Only(f, { "op", "vote" }), s, f.kind))
       IN  /\ session' = [session EXCEPT ![s] = SetItem(@, key, << f.writes[1][2] >>).data]
           /\ call' = [x \in (IF o.to = << >> THEN DOMAIN call \ {t} ELSE DOMAIN call) |->
                         IF x = t THEN o.to[1]
                         ELSE IF key = "voted_pair_of_reviews" /\ x[1] = s
                                 /\ "voted_pair_of_reviews" \in DOMAIN call[x]
                         THEN Upd(call[x], [voted_pair_of_reviews |-> "replaced"])
                         ELSE call[x]]
           /\ ret' = IF o.ret = << >> THEN [op |-> "step", session_id |-> s] ELSE o.ret[1]
    /\ UNCHANGED << engine, votes_sqlite, votes_jsonl, paper_registry >>

(***************************************************************************)
(* Threads: update_leaderboard                                             *)
(***************************************************************************)
\* one item of self._ratings.items() in get_ratings_stats (lines 255-264):
\* the read of self.vote_counts leaves a count of 0 for a reviewer without one
StatsItem(elo_sys, reviewer_id) ==
    LET rating == elo_sys.ratings[reviewer_id]
        vote_count == Get(elo_sys.vote_counts, reviewer_id, 0)
    IN  [reviewer_id |-> reviewer_id,
         stats |-> [score |-> rating,
                    ci |-> calculate_confidence_interval(rating, vote_count),
                    votes |-> vote_count],
         elo_sys |-> [elo_sys EXCEPT !.vote_counts = Touch(@, reviewer_id, 0)]]

\* update_leaderboard (the leaderboard tab is selected), line 54:
\* get_ratings_stats makes the iterator over self._ratings (it keeps the number
\* of keys) and takes the first item; without ratings the stats are empty and
\* the handler returns.  The table is computed from the stats alone
UpdateLeaderboard(s) ==
    /\ CanStart(s)
    /\ LET elo_sys == session[s]["elo_sys"]
           item == StatsItem(elo_sys, elo_sys.order[1])
       IN  IF elo_sys.order = << >>
           THEN /\ ret' = [op |-> "update_leaderboard", session_id |-> s,
                           kind |-> "returned", ratings_stats |-> << >>]
                /\ call' = StartEnd(s)
                /\ UNCHANGED session
           ELSE /\ call' = Start(s,
                      [op |-> "update_leaderboard", pc |-> "items",
                       used |-> Len(elo_sys.order), taken |-> 1,
                       ratings_stats |-> << << item.reviewer_id, item.stats >> >>])
                /\ session' = [session EXCEPT ![s]["elo_sys"] = item.elo_sys]
                /\ ret' = [op |-> "step", session_id |-> s]
    /\ UNCHANGED << engine, votes_sqlite, votes_jsonl, paper_registry >>

\* line 255, the next item: the iterator raises RuntimeError (dictionary
\* changed size during iteration) when the number of keys is no longer the one
\* it kept, also when no item is left
LeaderboardItem(t) ==
    /\ At(t, "items")
    /\ LET f == call[t]
           s == t[1]
           elo_sys == session[s]["elo_sys"]
           item == StatsItem(elo_sys, elo_sys.order[f.taken + 1])
       IN  IF Len(elo_sys.order) # f.used
           THEN /\ Take(t, End([op |-> "update_leaderboard", session_id |-> s,
                                kind |-> "RuntimeError"]))
                /\ UNCHANGED session
           ELSE IF f.taken = f.used
           THEN /\ Take(t, End([op |-> "update_leaderboard", session_id |-> s,
                                kind |-> "returned", ratings_stats |-> f.ratings_stats]))
                /\ UNCHANGED session
           ELSE /\ Take(t, Go(Upd(f, [taken |-> f.taken + 1,
                                      ratings_stats |->
                                         Append(f.ratings_stats,
                                                << item.reviewer_id, item.stats >>)])))
                /\ session' = [session EXCEPT ![s]["elo_sys"] = item.elo_sys]
    /\ UNCHANGED << engine, votes_sqlite, votes_jsonl, paper_registry >>

(***************************************************************************)
(* Threads: submit_vote                                                    *)
(***************************************************************************)
\* the votes of session s in the SQLite store
Submitted(s) == Cardinality({ row \in votes_sqlite : row.columns[1] = << s >> })

\* the submit_vote calls of session s that have not stored their vote yet
Submitting(s) ==
    Cardinality({ t \in Running(s) :
                    call[t].op = "submit_vote"
                    /\ ("radio" \in DOMAIN call[t] \/ call[t].pc = "sqlite") })

\* lines 258-269: the frame of a complete submission, session["paper_id"] read
VoteFrame(s, radio, now) ==
    [op |-> "submit_vote", pc |-> "read", then |-> "vote", radio |-> radio, now |-> now,
     paper_id |-> session[s]["paper_id"],
     reads |-> << "reviewer_a", "reviewer_b", "reviewer_a_review", "reviewer_b_review" >>]

\* submit_vote without the check of lines 226-229: a vote is made of whatever
\* the radio buttons hold
SubmitVote_Unchecked(s, radio, now) ==
    /\ CanStart(s)
    /\ Submitted(s) + Submitting(s) < MaxSubmits
    /\ call' = Start(s, VoteFrame(s, radio, now))
    /\ ret' = [op |-> "step", session_id |-> s]
    /\ UNCHANGED << engine, arena >>

\* submit_vote, lines 215-260: the check of the radio values.  An incomplete
\* submission returns what it was given with session["reviewer_a"] and
\* session["reviewer_b"] for the dropdowns: nothing is kept of these reads, and
\* the call is over in this step.  A complete one starts the Vote with the
\* read of session["paper_id"]
SubmitVote(s, radio, now) ==
    /\ CanStart(s)
    /\ IF \E i \in 1..4 : radio[i] = None
       THEN /\ ret' = [op |-> "submit_vote", session_id |-> s, kind |-> "incomplete",
                       radio |-> radio]
            /\ call' = StartEnd(s)
       ELSE /\ Submitted(s) + Submitting(s) < MaxSubmits
            /\ call' = Start(s, VoteFrame(s, radio, now))
            /\ ret' = [op |-> "step", session_id |-> s]
    /\ UNCHANGED << engine, arena >>

\* Session.__getitem__, the next of the reads of lines 261-268 (the fields of
\* the Vote), 279-281 (the set of voted pairs, then the two reviews shown) or
\* 346-349 (the reviewers select_new_paper left); then the Vote is made, the
\* pair is added, or lines 351-354 write what was read
SessionRead(t) ==
    /\ At(t, "read")
    /\ LET f == call[t]
           key == f.reads[1]
           g == Upd(f, [reads |-> Tail(f.reads)] @@
                       (key :> IF key = "voted_pair_of_reviews" THEN "held"
                               ELSE session[t[1]][key]))
       IN  Take(t, Go(
             IF g.reads # << >> THEN g
             ELSE IF f.then = "vote"
             THEN [op |-> "submit_vote", pc |-> "sqlite",
                   vote |-> NewVote(t[1], g.paper_id, g.reviewer_a, g.reviewer_b,
                                    g.radio[1], g.radio[2], g.radio[3], g.radio[4],
                                    g.reviewer_a_review, g.reviewer_b_review, g.now)]
             ELSE IF f.then = "add"
             THEN Upd(Only(g, { "op", "vote", "voted_pair_of_reviews", "reviewer_a_review",
                                "reviewer_b_review" }), [pc |-> "add"])
             ELSE Upd(Only(g, { "op", "vote" }),
                      [pc |-> "write", fn |-> "submit_vote", kind |-> "selected",
                       writes |-> << << "reviewer_a", g.reviewer_a >>,
                                     << "reviewer_b", g.reviewer_b >>,
                                     << "reviewer_a_review", g.reviewer_a_sampled_review >>,
                                     << "reviewer_b_review",
                                        g.reviewer_b_sampled_review >> >>])))
    /\ UNCHANGED << engine, arena >>

\* line 272: session_state["votes_sqlite"].store_vote(vote); ok: the write succeeds
SubmitStoreSqlite(t, ok) ==
    /\ At(t, "sqlite")
    /\ IF ok
       THEN /\ votes_sqlite' = VotesSqlite_store_vote(votes_sqlite, call[t].vote)
            /\ call' = [call EXCEPT ![t].pc = "jsonl"]
       ELSE /\ call' = [x \in DOMAIN call \ {t} |-> call[x]]
            /\ UNCHANGED votes_sqlite
    /\ ret' = [op |-> "submit_vote:sqlite", session_id |-> t[1], ok |-> ok,
               vote |-> call[t].vote, kind |-> IF ok THEN "stored" ELSE "sqlite3.Error"]
    /\ UNCHANGED << engine, votes_jsonl, paper_registry, session >>

\* line 273 with a failed write passed over: the handler goes on to the engine
SubmitStoreJsonl_Swallow(t, ok) ==
    /\ At(t, "jsonl")
    /\ IF ok
       THEN votes_jsonl' = VotesJSONL_store_vote(votes_jsonl, call[t].vote)
       ELSE UNCHANGED votes_jsonl
    /\ call' = [call EXCEPT ![t].pc = "elo_sys"]
    /\ ret' = [op |-> "submit_vote:jsonl", session_id |-> t[1], ok |-> ok,
               vote |-> call[t].vote, kind |-> IF ok THEN "stored" ELSE "OSError"]
    /\ UNCHANGED << engine, votes_sqlite, paper_registry, session >>

\* line 273: session_state["votes_jsonl"].store_vote(vote)
SubmitStoreJsonl(t, ok) ==
    /\ At(t, "jsonl")
    /\ IF ok
       THEN /\ votes_jsonl' = VotesJSONL_store_vote(votes_jsonl, call[t].vote)
            /\ call' = [call EXCEPT ![t].pc = "elo_sys"]
       ELSE /\ call' = [x \in DOMAIN call \ {t} |-> call[x]]
            /\ UNCHANGED votes_jsonl
    /\ ret' = [op |-> "submit_vote:jsonl", session_id |-> t[1], ok |-> ok,
               vote |-> call[t].vote, kind |-> IF ok THEN "stored" ELSE "OSError"]
    /\ UNCHANGED << engine, votes_sqlite, paper_registry, session >>

\* line 276, add_vote (line 164): self.votes.append(vote); update_ratings is
\* entered and the score of the vote computed (lines 109-131)
SubmitAddVote(t) ==
    /\ At(t, "elo_sys")
    /\ session' = [session EXCEPT ![t[1]]["elo_sys"].votes = Append(@, call[t].vote)]
    /\ Take(t, Go(Upd(call[t],
          [pc |-> "rating_a", rating_a |-> 0, rating_b |-> 0,
           normalized_score |-> normalized_score(DefaultWeights, call[t].vote)])))
    /\ UNCHANGED << engine, votes_sqlite, votes_jsonl, paper_registry >>

\* lines 133-134 on the session's engine: the ratings of the two sides are
\* read; a missing key enters the default factory with nothing stored yet
SubmitReadRating(t) ==
    /\ At(t, "rating_a")
    /\ LET r == session[t[1]]["elo_sys"].ratings
           reviewer_a == call[t].vote.reviewer_a
       IN  Take(t, Go(IF reviewer_a \in DOMAIN r
                      THEN UpdateReadB(Upd(call[t], [rating_a |-> r[reviewer_a]]), r)
                      ELSE Upd(call[t], [pc |-> "default_a"])))
    /\ UNCHANGED << engine, arena >>

\* lines 133-134, the key was missing: the default is stored under it, or the
\* rating another thread stored meanwhile is kept, and read
SubmitDefaultRating(t) ==
    /\ At(t, "default_a") \/ At(t, "default_b")
    /\ LET f == call[t]
           s == t[1]
           elo_sys == session[s]["elo_sys"]
           key == IF f.pc = "default_a" THEN f.vote.reviewer_a ELSE f.vote.reviewer_b
           stored == StoreRating(elo_sys, key, initial_rating)
           Read(e) == IF f.pc = "default_a"
                      THEN UpdateReadB(Upd(f, [rating_a |-> e.ratings[key]]), e.ratings)
                      ELSE Upd(f, [pc |-> "expected_score", rating_b |-> e.ratings[key]])
       IN  \/ /\ session' = [session EXCEPT ![s]["elo_sys"] = stored]
              /\ Take(t, Go(Read(stored)))
           \/ /\ key \in DOMAIN elo_sys.ratings
              /\ UNCHANGED session
              /\ Take(t, Go(Read(elo_sys)))
    /\ UNCHANGED << engine, votes_sqlite, votes_jsonl, paper_registry >>

\* lines 136-148 on the session's engine: the expected scores from the ratings
\* read, then the four "+="; the handler goes on to line 279
SubmitUpdate(t) ==
    /\ At(t, "expected_score")
    /\ LET f == call[t]
           elo_sys == session[t[1]]["elo_sys"]
           a == f.vote.reviewer_a
           b == f.vote.reviewer_b
           n == f.normalized_score
           expected_a == expected_score(f.rating_a, f.rating_b)
           expected_b == One - expected_a
           e1 == StoreRating(elo_sys, a,
                    Get(elo_sys.ratings, a, initial_rating) + RatingDelta(n - expected_a))
           e2 == StoreRating(e1, b,
                    Get(e1.ratings, b, initial_rating)
                      + RatingDelta((One - n) - expected_b))
           c1 == [Touch(elo_sys.vote_counts, a, 0) EXCEPT ![a] = @ + n]
           c2 == [Touch(c1, b, 0) EXCEPT ![b] = @ + (One - n)]
       IN  /\ session' = [session EXCEPT ![t[1]]["elo_sys"] =
                             [e2 EXCEPT !.vote_counts = c2]]
           /\ Take(t, Go([op |-> "submit_vote", pc |-> "read", then |-> "add",
                          vote |-> f.vote,
                          reads |-> << "voted_pair_of_reviews", "reviewer_a_review",
                                       "reviewer_b_review" >>]))
    /\ UNCHANGED << engine, votes_sqlite, votes_jsonl, paper_registry >>

\* lines 279-281: set.add on the set read (a set the session no longer has
\* when select_new_paper replaced it meanwhile)
SubmitAddPair(t) ==
    /\ At(t, "add")
    /\ LET f == call[t]
       IN  /\ session' =
                IF f.voted_pair_of_reviews = "held"
                THEN [session EXCEPT ![t[1]]["voted_pair_of_reviews"] =
                        @ \cup { << f.reviewer_a_review, f.reviewer_b_review >> }]
                ELSE session
           /\ Take(t, Go([op |-> "submit_vote", pc |-> "cur_paper_pos", vote |-> f.vote]))
    /\ UNCHANGED << engine, votes_sqlite, votes_jsonl, paper_registry >>

\* lines 284-285: cur_paper_pos = session_state["cur_paper_pos"]; the first
\* attempt of the loop of lines 310-333 is next
SubmitReadPos(t) ==
    /\ At(t, "cur_paper_pos")
    /\ Take(t, Go(Upd(call[t], [pc |-> "get_fair_pair", fn |-> "submit_vote",
                                pos |-> session[t[1]]["cur_paper_pos"], attempt |-> 1])))
    /\ UNCHANGED << engine, arena >>

\* sample_new_reviews, lines 292-307: one pair of reviews tested against
\* session_state["voted_pair_of_reviews"]; after the last one a pair is chosen
\* from the available ones and lines 351-354 write it, or the attempt failed
SampleNewReviews(t) ==
    /\ At(t, "sample_new_reviews")
    /\ LET f == call[t]
           pair == f.pairs[1]
           g == Upd(f, [pairs |-> Tail(f.pairs),
                        available_pairs |->
                           IF /\ pair \notin session[t[1]]["voted_pair_of_reviews"]
                              /\ Len(strip(pair[1])) > 0
                              /\ Len(strip(pair[2])) > 0
                           THEN f.available_pairs \cup {pair} ELSE f.available_pairs])
       IN  \E frame \in
             IF g.pairs # << >> THEN { g }
             ELSE IF g.available_pairs = {} THEN { NextAttempt(f) }
             ELSE { Upd(Only(f, { "op", "vote", "fn" }),
                        [pc |-> "write", kind |-> "resampled",
                         writes |-> << << "reviewer_a", f.reviewer_a >>,
                                       << "reviewer_b", f.reviewer_b >>,
                                       << "reviewer_a_review", new_reviews[1] >>,
                                       << "reviewer_b_review", new_reviews[2] >> >>]) :
                      new_reviews \in g.available_pairs } :
             Take(t, Go(frame))
    /\ UNCHANGED << engine, arena >>

\* lines 276-375 in one step: the engine takes the vote, then the next reviews
\* or paper.  They reach nothing but the session of the handler, so the step
\* stands for the steps above wherever a session runs one handler at a time
SubmitApply(t) ==
    /\ At(t, "elo_sys")
    /\ LET s == t[1]
           vote == call[t].vote
           sess == session[s]
           elo_sys == sess["elo_sys"]
           u == update_ratings(DefaultWeights, elo_sys.ratings, elo_sys.vote_counts, vote)
           s1 == [sess EXCEPT !["elo_sys"] =
                     [votes |-> Append(elo_sys.votes, vote), ratings |-> u.ratings,
                      vote_counts |-> u.vote_counts,
                      order |-> AppendNew(AppendNew(elo_sys.order, vote.reviewer_a),
                                          vote.reviewer_b)]]
           s2 == [s1 EXCEPT !["voted_pair_of_reviews"] =
                     @ \cup { << s1["reviewer_a_review"], s1["reviewer_b_review"] >> }]
           cur_paper_pos == s2["cur_paper_pos"]
           cur_sampled_paper == paper_registry[cur_paper_pos + 1]
           loop == Resample({s2}, cur_sampled_paper, 1)
           Record(kind, examined) ==
               [op |-> "submit_vote", session_id |-> s, kind |-> kind, vote |-> vote,
                new_paper_pos |-> (cur_paper_pos + 1) % Len(paper_registry),
                examined |-> examined]
           Left(x) == { [x EXCEPT !["elo_sys"].order = order] :
                          order \in KeyOrders(x["elo_sys"]) }
       IN  \/ \E f \in loop.found :
                /\ \E x \in Left(f.session) :
                     session' = SetSession(s,
                        [x EXCEPT !["reviewer_a"] = f.reviewer_a,
                                  !["reviewer_b"] = f.reviewer_b,
                                  !["reviewer_a_review"] = f.reviewer_a_review,
                                  !["reviewer_b_review"] = f.reviewer_b_review])
                /\ Take(t, End(Record("resampled", << >>)))
           \/ \E r \in loop.raised :
                /\ \E x \in Left(r) : session' = SetSession(s, x)
                /\ Take(t, End(Record("IndexError", << >>)))
           \/ \E e \in loop.exhausted :
                \E o \in select_new_paper(paper_registry, e,
                            (cur_paper_pos + 1) % Len(paper_registry), 0, << >>) :
                  /\ \E x \in Left(o.session) : session' = SetSession(s, x)
                  /\ Take(t, End(Record(o.kind, o.examined)))
    /\ UNCHANGED << engine, votes_sqlite, votes_jsonl, paper_registry >>

\* the threads of the handlers of session s
HandlerThreads(s) == { << s, n >> : n \in 1..MaxCalls }

\* the event handlers of one browser session (build_arena_ui), each step of
\* each running handler; a store_vote call succeeds or raises
NextApp ==
    \E s \in { "s1" } :
        \/ InitDemo(s)
        \/ InitDemoAssert(s)
        \/ InitDemoSelect(s)
        \/ NextPaper(s)
        \/ PrevPaper(s)
        \/ UpdateLeaderboard(s)
        \/ \E radio \in RadioChoices, now \in NowChoices : SubmitVote(s, radio, now)
        \/ \E t \in HandlerThreads(s) :
              \/ SelectNewPaper(t)
              \/ PairKeys(t)
              \/ PairMax(t)
              \/ PairMin(t)
              \/ PairAttempt(t)
              \/ PairRead(t)
              \/ PairDefault(t)
              \/ SessionWrite(t)
              \/ LeaderboardItem(t)
              \/ SessionRead(t)
              \/ \E ok \in BOOLEAN : SubmitStoreSqlite(t, ok)
              \/ \E ok \in BOOLEAN : SubmitStoreJsonl(t, ok)
              \/ SubmitAddVote(t)
              \/ SubmitReadRating(t)
              \/ SubmitDefaultRating(t)
              \/ SubmitUpdate(t)
              \/ SubmitAddPair(t)
              \/ SubmitReadPos(t)
              \/ SampleNewReviews(t)

SpecApp == InitArena /\ [][NextApp]_vars

\* two browser sessions of one process that load the page and submit complete votes, over
\* empty stores that never fail and a registry of one paper with two
\* reviewers: the handlers interleave at the store_vote calls and at the reads
\* of init_demo (no lock in app.py or votes.py)
InitSessions == Arena(0, << PaperTwo >>)

NextSessions ==
    \E s \in { "s1", "s2" } :
        \/ InitDemo(s)
        \/ InitDemoAssert(s)
        \/ InitDemoSelect(s)
        \/ \E radio \in { r \in RadioChoices : None \notin Elements(r) },
              now \in NowChoices : SubmitVote(s, radio, now)
        \/ \E t \in HandlerThreads(s) :
              \/ SessionRead(t)
              \/ SubmitStoreSqlite(t, TRUE)
              \/ SubmitStoreJsonl(t, TRUE)
              \/ SubmitApply(t)

SpecSessions == InitSessions /\ [][NextSessions]_vars

(***************************************************************************)
(* The Session object on its own (sessions.py): the public methods that    *)
(* change its custom data, called in any order by a client                 *)
(***************************************************************************)
\* the items a client sets: an immutable name, an attribute (None included),
\* custom keys with their values, and None for a custom key
SessionItems ==
    { << "session_id", << "s9" >> >>, << "end_time", << >> >>, << "end_time", << "t1" >> >>,
      << "cur_paper_pos", << 1 >> >>, << "cur_paper_pos", << >> >>,
      << "paper_id", << "p2" >> >>, << "paper_id", << "p9" >> >>,
      << "reviewer_a", << "barebones" >> >> }

SessionKeys == { item[1] : item \in SessionItems }

\* the dicts passed to update: up to two items, in either order
SessionDicts ==
    { << >> } \cup { << i >> : i \in SessionItems }
        \cup { d \in SessionItems \X SessionItems : d[1][1] # d[2][1] }

\* Session("s1"): no custom data
InitSession ==
    /\ weights = DefaultWeights
    /\ votes_db = << >>
    /\ votes = << >>
    /\ ratings = EmptyMap
    /\ vote_counts = EmptyMap
    /\ ret = [op |-> "__init__"]
    /\ call = NoCalls
    /\ votes_sqlite = {}
    /\ votes_jsonl = << >>
    /\ paper_registry = << >>
    /\ session = [s \in { "s1" } |-> EmptyMap]

\* session[key] = value
SessionSetItem(s, key, value) ==
    LET r == SetItem(session[s], key, value)
    IN  /\ session' = [session EXCEPT ![s] = r.data]
        /\ ret' = [op |-> "__setitem__", key |-> key, raised |-> r.raised,
                   attributes |-> IF Len(r.attribute) = 0 THEN << >> ELSE << r.attribute >>]
        /\ UNCHANGED << weights, votes_db, votes, ratings, vote_counts, call,
                        votes_sqlite, votes_jsonl, paper_registry >>

\* del session[key]
SessionDelItem(s, key) ==
    LET r == DelItem(session[s], key)
    IN  /\ session' = [session EXCEPT ![s] = r.data]
        /\ ret' = [op |-> "__delitem__", key |-> key, raised |-> r.raised]
        /\ UNCHANGED << weights, votes_db, votes, ratings, vote_counts, call,
                        votes_sqlite, votes_jsonl, paper_registry >>

\* session.pop(key, default)
SessionPop(s, key, default) ==
    LET r == Pop(session[s], key, default)
    IN  /\ session' = [session EXCEPT ![s] = r.data]
        /\ ret' = [op |-> "pop", key |-> key, raised |-> r.raised, result |-> r.result]
        /\ UNCHANGED << weights, votes_db, votes, ratings, vote_counts, call,
                        votes_sqlite, votes_jsonl, paper_registry >>

\* session.clear()
SessionClear(s) ==
    /\ session' = [session EXCEPT ![s] = Clear(@).data]
    /\ ret' = [op |-> "clear", raised |-> ""]
    /\ UNCHANGED << weights, votes_db, votes, ratings, vote_counts, call,
                    votes_sqlite, votes_jsonl, paper_registry >>

\* session.update(data)
SessionUpdate(s, data) ==
    LET r == Update(session[s], data)
    IN  /\ session' = [session EXCEPT ![s] = r.data]
        /\ ret' = [op |-> "update", keys |-> [i \in 1..Len(data) |-> data[i][1]],
                   raised |-> r.raised, attributes |-> r.attributes]
        /\ UNCHANGED << weights, votes_db, votes, ratings, vote_counts, call,
                        votes_sqlite, votes_jsonl, paper_registry >>

NextSession ==
    \/ \E item \in SessionItems : SessionSetItem("s1", item[1], item[2])
    \/ \E key \in SessionKeys : SessionDelItem("s1", key)
    \/ \E item \in SessionItems : SessionPop("s1", item[1], item[2])
    \/ SessionClear("s1")
    \/ \E data \in SessionDicts : SessionUpdate("s1", data)

SpecSession == InitSession /\ [][NextSession]_vars

(***************************************************************************)
(* Properties of get_fair_pair (checked under SpecPair)                    *)
(***************************************************************************)
Called == ret.op = "get_fair_pair"
Returned == Called /\ ret.result.kind = "pair"
\* candidates_a, candidates_b after lines 189-190
PoolA == IF ret.candidates_a.none THEN ret.all_reviewers ELSE ret.candidates_a.set
PoolB == IF ret.candidates_b.none THEN ret.all_reviewers ELSE ret.candidates_b.set

\* C1: a pair returned by get_fair_pair, on every engine state (a cold engine
\* included), has two different members and is not in exclude_pairs in either
\* order.
C1_NeverExcludedPair ==
    Returned =>
        /\ ret.result.a # ret.result.b
        /\ << ret.result.a, ret.result.b >> \notin ret.exclude_pairs
        /\ << ret.result.b, ret.result.a >> \notin ret.exclude_pairs

\* C2: a returned pair (a, b) has a in candidates_a and b in candidates_b; a
\* candidate set given as None stands for the reviewers that had a rating when the
\* call started.
C2_PairFromCandidates ==
    Returned => ret.result.a \in PoolA /\ ret.result.b \in PoolB

\* a pair was returned on a call that gave candidates_a and left candidates_b out,
\* its second member being a rated reviewer outside candidates_a
C2_Witness ==
    /\ Returned
    /\ ~ret.candidates_a.none
    /\ ret.candidates_b.none
    /\ ret.result.b \in ret.all_reviewers \ ret.candidates_a.set

\* C3: on a cold engine (no ratings) with both pools non-empty, get_fair_pair
\* completes normally: it returns a pair (a, b) with a in pool_a and b in
\* pool_b \ {a}, or None; it never raises.
C3_ColdStartCompletes ==
    (Called /\ ret.all_reviewers = {} /\ PoolA # {} /\ PoolB # {}) =>
        /\ ret.result.kind \in {"pair", "None"}
        /\ ret.result.kind = "pair" =>
              ret.result.a \in PoolA /\ ret.result.b \in PoolB \ {ret.result.a}

\* an explicitly supplied empty candidate set
GivenEmpty(arg) == ~arg.none /\ arg.set = {}

\* C15: when candidates_a or candidates_b is given as an empty set, get_fair_pair
\* returns None, in every engine state, and leaves the ratings and the vote
\* masses as they were; the empty set is not replaced by the rated reviewers.
C15_EmptyPoolReturnsNone ==
    [][ (/\ ret'.op = "get_fair_pair"
         /\ GivenEmpty(ret'.candidates_a) \/ GivenEmpty(ret'.candidates_b))
        => /\ ret'.result = NoPair
           /\ ratings' = ratings
           /\ vote_counts' = vote_counts ]_vars

\* an empty candidates_a on an engine with rated reviewers and a non-empty
\* candidates_b
C15_Witness ==
    /\ Called
    /\ GivenEmpty(ret.candidates_a)
    /\ ret.all_reviewers # {}
    /\ PoolB # {}
    /\ ret.result = NoPair

(***************************************************************************)
(* Properties of replay and of the ratings map (checked under Spec)        *)
(***************************************************************************)
Replayed == ret.op \in {"compute_ratings", "initialize_ratings"}

\* C4: replay (compute_ratings / initialize_ratings) resets the ratings and the
\* vote masses before applying the history: from any prior state, the ratings and
\* the vote masses after the replay are those of a freshly constructed engine that
\* applied the update rule to the same history, so a second replay adds no vote
\* mass.
C4_ReplayResetsBoth ==
    Replayed =>
        LET fresh == Replay(weights, EmptyMap, EmptyMap, votes, 1)
        IN  ratings = fresh.ratings /\ vote_counts = fresh.vote_counts

\* both engines have replayed the whole history
BothReplayed == \A e \in Engines : call[e].applied = 1..Len(votes)

C6_ZeroSum ==
    /\ SumMap(ratings, DOMAIN ratings) = initial_rating * Cardinality(DOMAIN ratings)
    /\ (ret.op = "update_ratings" /\ ret.vote.reviewer_a # ret.vote.reviewer_b) =>
          (ratings[ret.vote.reviewer_a]
              - Get(ret.before, ret.vote.reviewer_a, initial_rating))
          = - (ratings[ret.vote.reviewer_b]
                 - Get(ret.before, ret.vote.reviewer_b, initial_rating))
    /\ ret.op = "update_ratings" =>
          \A ra \in RatingLevels, rb \in RatingLevels :
              LET v == ret.vote
                  r == [x \in {v.reviewer_a, v.reviewer_b} |->
                           IF x = v.reviewer_a THEN ra ELSE rb]
                  u == update_ratings(weights, r, EmptyMap, v).ratings
              IN  u[v.reviewer_a] - ra = - (u[v.reviewer_b] - rb)

\* three rated reviewers after a get_fair_pair call: one moved by updates, one
\* that only the call's lazy default created
C6_Witness ==
    /\ ret.op = "get_fair_pair"
    /\ Cardinality(DOMAIN ratings) = 3
    /\ \E x \in DOMAIN ratings : ratings[x] # initial_rating
    /\ DOMAIN ratings \ DOMAIN vote_counts # {}

(***************************************************************************)
(* Properties of one update (checked under SpecUpdate)                     *)
(***************************************************************************)
Updated == ret.op = "update_ratings"

\* the ratings update_ratings read for the two reviewers of the vote
PreA == Get(ret.before, ret.vote.reviewer_a, initial_rating)
PreB == Get(ret.before, ret.vote.reviewer_b, initial_rating)
PostA == ratings[ret.vote.reviewer_a]
PostB == ratings[ret.vote.reviewer_b]

JudgedAll(vote, choice) == \A i \in 1..Len(FIELDS) : vote[FIELDS[i]] = choice

\* the rating gain of who (one of the two reviewers) when vote is applied at ratings ra (of
\* reviewer_a) and rb (of reviewer_b)
Gain(w, ra, rb, vote, who) ==
    LET r == [x \in {vote.reviewer_a, vote.reviewer_b} |->
                 IF x = vote.reviewer_a THEN ra ELSE rb]
    IN  update_ratings(w, r, EmptyMap, vote).ratings[who] - r[who]

\* the weight of the categories judged choice
RECURSIVE WonWeight(_, _, _, _)
WonWeight(w, vote, choice, i) ==
    IF i > Len(FIELDS) THEN 0
    ELSE (IF vote[FIELDS[i]] = choice THEN w[FIELDS[i]] ELSE 0)
         + WonWeight(w, vote, choice, i + 1)

\* vote with "Both are bad" replaced by "Tie" in the categories of S
BadToTie(vote, S) ==
    [f \in DOMAIN vote |->
        IF f \in S /\ vote[f] = ARENA_RATING_CHOICES[4]
        THEN ARENA_RATING_CHOICES[3] ELSE vote[f]]

FieldSet == { FIELDS[i] : i \in 1..Len(FIELDS) }

\* C7: with the default weights, k_factor 32 and two unseen reviewers A and B, one
\* update whose four categories are "A is better" has normalized score 1.0 and
\* expected score 0.5 and leaves A at 1516.0 and B at 1484.0.
C7_FirstWin ==
    (/\ Updated
     /\ weights = DefaultWeights
     /\ ret.before = EmptyMap
     /\ ret.vote = VoteOf("A", "B", AllA))
    => /\ normalized_score(weights, ret.vote) = One
       /\ expected_score(PreA, PreB) = One \div 2
       /\ PreA = 1500 * RatingScale /\ PreB = 1500 * RatingScale
       /\ ratings = [x \in {"A", "B"} |->
                        IF x = "A" THEN 1516 * RatingScale ELSE 1484 * RatingScale]

C7_Witness ==
    /\ Updated
    /\ weights = DefaultWeights
    /\ ret.before = EmptyMap
    /\ ret.vote = VoteOf("A", "B", AllA)
    /\ DOMAIN ratings = {"A", "B"}

\* C8: when all four categories favour A, A's rating strictly increases and B's
\* strictly decreases, and A's gain is strictly larger at any pair of ratings
\* where A is further below B; symmetrically when all four favour B.
C8_UpsetBonus ==
    /\ (Updated /\ JudgedAll(ret.vote, ARENA_RATING_CHOICES[1])) =>
          /\ PostA > PreA
          /\ PostB < PreB
          /\ \A ra \in RatingLevels, rb \in RatingLevels :
                rb - ra > PreB - PreA =>
                    Gain(weights, ra, rb, ret.vote, ret.vote.reviewer_a)
                        > PostA - PreA
    /\ (Updated /\ JudgedAll(ret.vote, ARENA_RATING_CHOICES[2])) =>
          /\ PostB > PreB
          /\ PostA < PreA
          /\ \A ra \in RatingLevels, rb \in RatingLevels :
                ra - rb > PreA - PreB =>
                    Gain(weights, ra, rb, ret.vote, ret.vote.reviewer_b)
                        > PostB - PreB

\* an upset: A, rated 1000 points below B, wins every category
C8_Witness ==
    /\ Updated
    /\ JudgedAll(ret.vote, ARENA_RATING_CHOICES[1])
    /\ PreA = 1400500 /\ PreB = 2400750
    /\ PostA - PreA > 16 * RatingScale

\* C9: an update between two reviewers with equal ratings leaves both ratings
\* unchanged when the weight of the categories A won equals the weight of the
\* categories B won (in particular when every category is a tie or both bad).
C9_BalancedNoChange ==
    (/\ Updated
     /\ PreA = PreB
     /\ WonWeight(weights, ret.vote, ARENA_RATING_CHOICES[1], 1)
          = WonWeight(weights, ret.vote, ARENA_RATING_CHOICES[2], 1))
    => PostA = PreA /\ PostB = PreB

\* custom weights: A wins technical quality (0.4), B wins constructiveness and
\* overall quality (0.3 + 0.1), clarity is both bad
C9_Witness ==
    /\ Updated
    /\ weights = CustomWeights
    /\ PreA = PreB
    /\ ret.vote = VoteOf("A", "B", << 1, 2, 4, 2 >>)

\* C10: "Both are bad" is treated as "Tie": replacing "Both are bad" by "Tie" in
\* any subset of the four categories of the vote gives the same ratings and the
\* same vote masses after the update.
C10_BothBadIsTie ==
    Updated =>
        \A S \in SUBSET FieldSet :
            update_ratings(weights, ret.before, ret.counts_before,
                           BadToTie(ret.vote, S))
                = [ratings |-> ratings, vote_counts |-> vote_counts]

\* a vote with "Both are bad" next to a win of A, at unequal ratings
C10_Witness ==
    /\ Updated
    /\ \E f \in FieldSet : ret.vote[f] = ARENA_RATING_CHOICES[4]
    /\ \E f \in FieldSet : ret.vote[f] = ARENA_RATING_CHOICES[1]
    /\ PreA # PreB
    /\ PostA # PreA

(***************************************************************************)
(* Properties of the vote masses (checked under Spec)                      *)
(***************************************************************************)
\* the number of times a call applies the update rule
Applications(op, vs) ==
    IF op \in {"update_ratings", "add_vote_then_update_ratings"} THEN 1
    ELSE IF op \in {"compute_ratings", "initialize_ratings", "__init__"} THEN Len(vs)
    ELSE 0

\* C11: vote masses start at 0 and are never negative; on one engine they never
\* decrease; an update adds normalized_score, a value in [0, 1], to A's mass and
\* 1 - normalized_score to B's; every call adds to the sum of the masses the number
\* of comparisons it processed, so n updates on a fresh engine leave the sum n.
C11_VoteMass ==
    [][ /\ \A x \in DOMAIN vote_counts' : vote_counts'[x] >= 0
        /\ ret'.op # "__init__" =>
              /\ \A x \in DOMAIN vote_counts :
                    x \in DOMAIN vote_counts' /\ vote_counts'[x] >= vote_counts[x]
              /\ \A x \in DOMAIN vote_counts' \ DOMAIN vote_counts :
                    ret'.op = "get_ratings_stats" => vote_counts'[x] = 0
              /\ TotalMass' = TotalMass + Applications(ret'.op, votes') * One
        /\ ret'.op = "__init__" => TotalMass' = Len(votes') * One
        /\ ret'.op \in {"update_ratings", "add_vote_then_update_ratings"} =>
              LET v == IF ret'.op = "update_ratings" THEN ret'.vote
                       ELSE votes'[Len(votes')]
                  n == normalized_score(weights, v)
              IN  /\ 0 <= n /\ n <= One
                  /\ vote_counts'[v.reviewer_a] = Get(vote_counts, v.reviewer_a, 0) + n
                  /\ vote_counts'[v.reviewer_b]
                        = Get(vote_counts, v.reviewer_b, 0) + (One - n)
      ]_vars

\* a second update on the engine, with a score strictly between 0 and 1
C11_Witness ==
    /\ ret.op = "update_ratings"
    /\ TotalMass = 2 * One
    /\ \E x \in DOMAIN vote_counts : vote_counts[x] % One # 0

(***************************************************************************)
(* Properties of ReviewEvalWeights (checked under SpecWeights)             *)
(***************************************************************************)
\* C12: constructing the weights fails with a validation error exactly when the
\* four weights do not sum to 1 within 1e-6 or some weight is not strictly
\* between 0 and 1; otherwise it succeeds and the object holds the weights as
\* given (nothing is clamped or renormalised).
C12_WeightsValidated ==
    ret.op = "ReviewEvalWeights" =>
        LET w == ret.kwargs
            total == w.technical_quality + w.constructiveness + w.clarity
                        + w.overall_quality
            off == Abs(total - WeightUnit) > WeightTolerance
            out == \E f \in DOMAIN w : w[f] <= 0 \/ w[f] >= WeightUnit
        IN  /\ (off \/ out) => ret.result = ValidationError
            /\ ~(off \/ out) => ret.result = Accepted(w)

\* accepted weights whose sum is not exactly 1 (test_float_precision)
C12_Witness ==
    /\ ret.op = "ReviewEvalWeights"
    /\ ret.result.kind = "ReviewEvalWeights"
    /\ WeightTotal(ret.kwargs, 1) # WeightUnit
    /\ ret.kwargs.overall_quality = 1

(***************************************************************************)
(* Properties of updates outside the contract (checked under SpecContract) *)
(***************************************************************************)
\* C13: an update whose two sides are the same reviewer fails fast: it changes
\* neither the ratings map nor the vote masses.
C13_SelfComparisonRejected ==
    (Updated /\ ret.vote.reviewer_a = ret.vote.reviewer_b) =>
        ratings = ret.before /\ vote_counts = ret.counts_before

\* C14: an update with a judgement that is none of the four enumerated values
\* fails loudly: it is not scored, and the ratings and vote masses are unchanged.
C14_InvalidJudgementRejected ==
    (Updated /\ \E i \in 1..Len(FIELDS) :
                   \A k \in 1..Len(ARENA_RATING_CHOICES) :
                       ret.vote[FIELDS[i]] # ARENA_RATING_CHOICES[k]) =>
        ratings = ret.before /\ vote_counts = ret.counts_before

(***************************************************************************)
(* Properties of the search loops (checked under SpecSearch)               *)
(***************************************************************************)
\* the call of thread 1 on ratings A = 1500, B = 1600, C = 1400 with
\* candidates_a = {A}, candidates_b = {B, C}, no exclusions and step 10
Scenario16 ==
    /\ 1 \in DOMAIN call
    /\ ratings = [x \in Reviewers |-> IF x = "A" THEN 1500 * RatingScale
                                      ELSE IF x = "B" THEN 1600 * RatingScale
                                      ELSE 1400 * RatingScale]
    /\ call[1].arg_a = Some({"A"})
    /\ call[1].arg_b = Some({"B", "C"})
    /\ call[1].exclude_pairs = {}
    /\ call[1].step = 10 * RatingScale

\* C16: in that scenario the window grows from 0 in steps of 10 up to the
\* rounded-up bound 100, where both B and C qualify: the call returns (A, B) or
\* (A, C) on the first attempt, after 11 passes, and never None.
C16_WindowReachesGap ==
    Scenario16 =>
        LET f == call[1]
        IN  /\ f.pc = "for" => f.attempts = 0
            /\ f.pc = "while" =>
                  /\ f.attempts = 1
                  /\ f.max_possible_diff = 100 * RatingScale
                  /\ f.current_diff = f.passes * 10 * RatingScale
                  /\ f.current_diff <= 100 * RatingScale
            /\ f.pc = "done" =>
                  /\ f.result \in { Pair("A", "B"), Pair("A", "C") }
                  /\ f.attempts = 1
                  /\ f.passes = 11
                  /\ f.current_diff = 100 * RatingScale
                  /\ f.eligible_reviewers = {"B", "C"}

C16_Witness ==
    /\ Scenario16
    /\ call[1].pc = "done"
    /\ call[1].result = Pair("A", "C")
    /\ call[1].current_diff = 100 * RatingScale

\* C17: get_fair_pair terminates within its loop bounds, for any pools,
\* exclusions, ratings and step: at most 100 attempts, at most
\* max_possible_diff / step + 1 passes of the widening loop in an attempt
\* (max_possible_diff being the distance rounded up to a multiple of step), and
\* the call ends by returning a pair or None.
C17_SearchBounded ==
    1 \in DOMAIN call =>
        LET f == call[1]
        IN  /\ f.attempts <= max_attempts
            /\ f.passes <= f.max_possible_diff \div f.step + 1
            /\ f.pc = "done" => f.result.kind \in {"pair", "None"}

(***************************************************************************)
(* Properties of the ratings entries and of the stats (checked under Spec) *)
(***************************************************************************)
\* the two sides of the vote an updating call applied
Sides(r, vs) ==
    IF r.op = "update_ratings" THEN {r.vote.reviewer_a, r.vote.reviewer_b}
    ELSE IF r.op = "add_vote_then_update_ratings"
    THEN {vs[Len(vs)].reviewer_a, vs[Len(vs)].reviewer_b}
    ELSE {}

\* C18: a rating entry, once present, stays, and its value changes only in an
\* update that has the reviewer on one of its two sides: get_fair_pair,
\* get_ratings, get_ratings_stats, add_vote (and store_vote) neither change nor
\* remove an entry; only compute_ratings / initialize_ratings (or a new engine)
\* may remove one.
C18_RatingsFrame ==
    [][ ret'.op \notin {"__init__", "compute_ratings", "initialize_ratings"} =>
          \A x \in DOMAIN ratings :
              /\ x \in DOMAIN ratings'
              /\ ratings'[x] # ratings[x] => x \in Sides(ret', votes') ]_vars

\* a get_fair_pair call on an engine with a rating moved by an update, creating
\* an entry by its lazy read
C18_Witness ==
    /\ ret.op = "get_fair_pair"
    /\ \E x \in ret.all_reviewers : ratings[x] # initial_rating
    /\ DOMAIN ratings # ret.all_reviewers

\* vote counts at which intervals are compared: 0.05, 0.25, 0.5, 1, 1.5, 2, 3, 6
MassLevels ==
    { One \div 20, One \div 4, One \div 2, One, 3 * (One \div 2), 2 * One,
      3 * One, 6 * One }

Width(ci) == ci[2] - ci[1]

\* C19: the confidence interval reported for a reviewer is (rating, rating) when
\* its vote mass is 0; with a positive vote mass it has the rating strictly
\* inside, is symmetric about it, and is strictly narrower than the interval of
\* any smaller positive vote mass and strictly wider than that of any larger one.
C19_ConfidenceInterval ==
    ret.op = "get_ratings_stats" =>
        \A x \in DOMAIN ret.result :
            LET s == ret.result[x]
            IN  /\ s.score = ratings[x]
                /\ s.votes = 0 => s.ci = << s.score, s.score >>
                /\ s.votes > 0 =>
                      /\ s.ci[1] < s.score /\ s.score < s.ci[2]
                      /\ s.score - s.ci[1] = s.ci[2] - s.score
                      /\ \A m \in MassLevels :
                            LET w == Width(calculate_confidence_interval(s.score, m))
                            IN  /\ m > s.votes => w < Width(s.ci)
                                /\ m < s.votes => w > Width(s.ci)

\* stats with a reviewer of vote mass 0 and a reviewer of a fractional vote mass
C19_Witness ==
    /\ ret.op = "get_ratings_stats"
    /\ \E x \in DOMAIN ret.result : ret.result[x].votes = 0
    /\ \E x \in DOMAIN ret.result :
          ret.result[x].votes > One /\ ret.result[x].votes < 2 * One

(***************************************************************************)
(* Properties of concurrent updates (checked under SpecConcurrent)         *)
(***************************************************************************)
\* the engine's maps after update v and then update w, from r and vc
Serial(r, vc, v, w) ==
    LET u == update_ratings(weights, r, vc, v)
    IN  update_ratings(weights, u.ratings, u.vote_counts, w)

\* C20: two updates running concurrently on one engine and touching the same
\* reviewer leave the ratings and vote masses of one of the two serial orders of
\* the two updates (each update acts as an atomic unit, no update is lost).
C20_UpdatesSerializable ==
    (/\ DOMAIN call = Threads
     /\ \A t \in Threads : call[t].op = "update_ratings" /\ call[t].pc = "done")
    => [ratings |-> ratings, vote_counts |-> vote_counts]
          \in { Serial(ret.before, ret.counts_before, call[1].vote, call[2].vote),
                Serial(ret.before, ret.counts_before, call[2].vote, call[1].vote) }


(***************************************************************************)
(* Properties of the arena (checked under SpecApp)                         *)
(***************************************************************************)
EloSys(sessions, s) == sessions[s]["elo_sys"]

InSqlite(table, v) ==
    LET all == VotesSqlite_get_all_votes(table).votes
    IN  \E i \in 1..Len(all) : all[i] = v

InJsonl(file, v) ==
    LET all == VotesJSONL_get_all_votes(file)
    IN  ~IsError(all) /\ \E i \in 1..Len(all.votes) : all.votes[i] = v

\* C21: the engine never writes to the vote stores (a step that changes a
\* session's engine leaves both stores as they are); the vote list of a
\* session's engine grows only by the vote of the submit_vote in progress, at
\* the point after both store_vote calls, when both stores return that vote;
\* and a store_vote that fails ends the handler (its frame is dropped, so it
\* takes no further step) with the session, its engine included, unchanged.
C21_StoredBeforeApplied ==
    [][ /\ \A s \in DOMAIN session \cap DOMAIN session' :
             /\ EloSys(session', s) # EloSys(session, s)
                  => votes_sqlite' = votes_sqlite /\ votes_jsonl' = votes_jsonl
             /\ EloSys(session', s).votes # EloSys(session, s).votes
                  => \E t \in Running(s) :
                       /\ call[t].op = "submit_vote"
                       /\ call[t].pc = "elo_sys"
                       /\ EloSys(session', s).votes
                              = Append(EloSys(session, s).votes, call[t].vote)
                       /\ InSqlite(votes_sqlite, call[t].vote)
                       /\ InJsonl(votes_jsonl, call[t].vote)
        /\ \A s \in DOMAIN session' \ DOMAIN session :
             /\ votes_sqlite' = votes_sqlite /\ votes_jsonl' = votes_jsonl
             /\ EloSys(session', s).votes = VotesSqlite_get_all_votes(votes_sqlite).votes
        /\ (ret'.op \in {"submit_vote:sqlite", "submit_vote:jsonl"} /\ ~ret'.ok)
             => /\ session' = session
                /\ \E t \in Running(ret'.session_id) :
                      /\ call[t].pc \in { "sqlite", "jsonl" }
                      /\ call[t].vote = ret'.vote
                      /\ call' = [x \in DOMAIN call \ {t} |-> call[x]]
      ]_vars

\* a submit_vote has stored its vote in both stores and then applied it
C21_Witness ==
    /\ ret.op = "submit_vote"
    /\ ret.kind = "resampled"
    /\ ret.session_id \in DOMAIN session
    /\ LET vs == EloSys(session, ret.session_id).votes
       IN  /\ Len(vs) > 0
           /\ vs[Len(vs)] = ret.vote
           /\ InSqlite(votes_sqlite, ret.vote)
           /\ InJsonl(votes_jsonl, ret.vote)

(***************************************************************************)
(* C22: both stores return what was stored, in the order it was stored     *)
(***************************************************************************)
RECURSIVE ReplayInOrder(_, _)
\* the engine a construction over these votes yields: one update per vote, in
\* the order of the list
ReplayInOrder(all_votes, n) ==
    IF n = 0 THEN [ratings |-> EmptyMap, vote_counts |-> EmptyMap]
    ELSE LET before == ReplayInOrder(all_votes, n - 1)
         IN  update_ratings(DefaultWeights, before.ratings, before.vote_counts,
                            all_votes[n])

\* C22: in both stores get_all_votes returns exactly the votes stored, each
\* equal to the vote that was stored, in the order of the store_vote calls: the
\* stores start with the votes stored before, every successful store_vote
\* appends its vote to what get_all_votes returns and nothing else changes a
\* store; an engine constructed over the SQLite store holds that list and the
\* ratings of replaying it in that order.
C22_StoresReturnStoredVotes ==
    /\ \E n \in 0..Len(StoredBefore) :
          /\ VotesSqlite_get_all_votes(votes_sqlite) = VoteList(SubSeq(StoredBefore, 1, n))
          /\ VotesJSONL_get_all_votes(votes_jsonl) = VoteList(SubSeq(StoredBefore, 1, n))
    /\ [][ /\ IF ret'.op = "submit_vote:sqlite" /\ ret'.ok
              THEN VotesSqlite_get_all_votes(votes_sqlite')
                     = VoteList(Append(VotesSqlite_get_all_votes(votes_sqlite).votes,
                                       ret'.vote))
              ELSE votes_sqlite' = votes_sqlite
           /\ IF ret'.op = "submit_vote:jsonl" /\ ret'.ok
              THEN VotesJSONL_get_all_votes(votes_jsonl')
                     = VoteList(Append(VotesJSONL_get_all_votes(votes_jsonl).votes,
                                       ret'.vote))
              ELSE votes_jsonl' = votes_jsonl
           /\ \A s \in DOMAIN session' \ DOMAIN session :
                LET all == VotesSqlite_get_all_votes(votes_sqlite).votes
                    replayed == ReplayInOrder(all, Len(all))
                IN  /\ EloSys(session', s).votes = all
                    /\ \A x \in DOMAIN replayed.ratings :
                          EloSys(session', s).ratings[x] = replayed.ratings[x]
                    /\ EloSys(session', s).vote_counts = replayed.vote_counts
         ]_vars

\* both stores return the two votes stored before and the vote of a session
\* after them, its review text and its microseconds intact, and the session's
\* engine was constructed over the two votes
C22_Witness ==
    /\ ret.op = "submit_vote:jsonl"
    /\ ret.ok
    /\ VotesSqlite_get_all_votes(votes_sqlite) = VoteList(Append(StoredBefore, ret.vote))
    /\ VotesJSONL_get_all_votes(votes_jsonl) = VoteList(Append(StoredBefore, ret.vote))
    /\ ret.vote.vote_time.microsecond # "000000"
    /\ "\n" \in Elements(ret.vote.review_a) \cup Elements(ret.vote.review_b)
    /\ "\\" \in Elements(ret.vote.review_a) \cup Elements(ret.vote.review_b)
    /\ ret.session_id \in DOMAIN session
    /\ SubSeq(EloSys(session, ret.session_id).votes, 1, 2) = StoredBefore
    /\ Get(EloSys(session, ret.session_id).ratings, "liang_etal", 0)
         # Get(EloSys(session, ret.session_id).ratings, "human_reviewer", 0)

(***************************************************************************)
(* C23: expected_score in doubles (SpecScore)                              *)
(***************************************************************************)
Scored == ret.op = "expected_score"

Lead == (ret.rating_a - ret.rating_b) \div RatingScale

Swapped == expected_score_float(ret.rating_b, ret.rating_a)

Raised400 == expected_score_float(ret.rating_a + PowerPoints, ret.rating_b)

\* |x - 1.0| <= 2^-51 for a double x
NearOne(x) ==
    \/ x[2] = -53 /\ Minus(Two53, x[1])[1] = 0 /\ Minus(Two53, x[1])[2] <= 4
    \/ x[2] = -52 /\ Minus(x[1], Two52)[1] = 0 /\ Minus(x[1], Two52)[2] <= 2

C24_StoresAgreeWhenIdle ==
    /\ (\A t \in DOMAIN call : call[t].op # "submit_vote")
         => VotesSqlite_get_all_votes(votes_sqlite)
              = VotesJSONL_get_all_votes(votes_jsonl)
    /\ \A t \in DOMAIN call :
           ~(call[t].pc = "raised" /\ call[t].error = "AssertionError")

(***************************************************************************)
(* C25: the window of get_fair_pair on engines the operations build (Spec) *)
(***************************************************************************)
\* C25: on every engine reached by construction, replay, updates and
\* get_fair_pair, the initial rating lies between the lowest and the highest
\* recorded rating; so in a call without exclusions on one pool of at least two
\* reviewers for both sides, the rounded-up window bound of every a of the pool
\* covers every b of the pool, lazily defaulted ones included, and the call
\* returns a pair, never None.
C25_WindowCoversPool ==
    /\ DOMAIN ratings # {} =>
          /\ MinOf(Values(ratings)) <= initial_rating
          /\ initial_rating <= MaxOf(Values(ratings))
    /\ (Called /\ ret.exclude_pairs = {} /\ ret.candidates_a = ret.candidates_b
            /\ Cardinality(PoolA) >= 2) =>
          /\ Returned
          /\ ret.all_reviewers # {} =>
                LET recorded == { ratings[x] : x \in ret.all_reviewers }
                IN  \A a \in PoolA, b \in PoolB :
                       Abs(Get(ratings, b, initial_rating) - Get(ratings, a, initial_rating))
                         <= CeilToStep(Max2(MaxOf(recorded) - Get(ratings, a, initial_rating),
                                            Get(ratings, a, initial_rating) - MinOf(recorded)),
                                       ret.step)

\* a call on the pool {A, B, C} of an engine that rated only A and B, apart by
\* more than a step: C was defaulted to the initial rating and a pair returned
C25_Witness ==
    /\ Returned
    /\ ret.exclude_pairs = {}
    /\ ret.candidates_a = Some(Reviewers)
    /\ ret.candidates_b = Some(Reviewers)
    /\ ret.all_reviewers = { "A", "B" }
    /\ ratings["A"] - ratings["B"] > ret.step
    /\ "C" \in DOMAIN ratings
    /\ ratings["C"] = initial_rating
    /\ "C" \in { ret.result.a, ret.result.b }

(***************************************************************************)
(* C26: the widening search returns from the smallest window (SpecPair)    *)
(***************************************************************************)
\* the distance of x's rating from a's
GapTo(a, x) == Abs(Get(ratings, x, initial_rating) - Get(ratings, a, initial_rating))

\* the reviewers the search can pair with a: in pool_b, not a, not excluded
\* with a in either order
EligibleFor(a) ==
    { x \in PoolB \ {a} :
        << a, x >> \notin ret.exclude_pairs /\ << x, a >> \notin ret.exclude_pairs }

\* the number of steps of the smallest window (a multiple of step, from 0)
\* that reaches distance d
StepsTo(d) == (d + ret.step - 1) \div ret.step

\* C26: a pair (a, b) returned by the windowed search has b within the smallest
\* multiple of step that reaches some eligible b'; so when an eligible b' has
\* exactly a's rating b has a's rating too, and when an eligible b' is within
\* one step the gap between a and b is at most one step.
C26_GreedySmallestWindow ==
    (Returned /\ ret.all_reviewers # {}) =>
        LET a == ret.result.a
            b == ret.result.b
        IN  /\ b \in EligibleFor(a)
            /\ \A other \in EligibleFor(a) :
                  /\ GapTo(a, b) <= StepsTo(GapTo(a, other)) * ret.step
                  /\ GapTo(a, other) = 0 => GapTo(a, b) = 0
                  /\ GapTo(a, other) <= ret.step => GapTo(a, b) <= ret.step

\* a returned pair whose gap is positive and whose a has another eligible
\* reviewer that only a wider window reaches
C26_Witness ==
    /\ Returned
    /\ ret.all_reviewers # {}
    /\ GapTo(ret.result.a, ret.result.b) > 0
    /\ \E other \in EligibleFor(ret.result.a) :
          StepsTo(GapTo(ret.result.a, other))
            > StepsTo(GapTo(ret.result.a, ret.result.b))

(***************************************************************************)
(* C27: incremental updates agree with replay (SpecIncremental)            *)
(***************************************************************************)
\* C27: on an engine constructed over a vote log and then fed votes through
\* add_vote_then_update_ratings, with get_fair_pair and get_ratings_stats calls
\* in between, the rating of every reviewer of the engine's vote list equals the
\* rating a replay of that list gives; a compute_ratings call leaves these
\* ratings as they were.
C27_IncrementalEqualsReplay ==
    LET replayed == compute_ratings(weights, ratings, EmptyMap, votes).ratings
    IN  /\ \A x \in DOMAIN replayed : x \in DOMAIN ratings /\ ratings[x] = replayed[x]
        /\ ret.op = "compute_ratings" =>
              \A x \in DOMAIN ratings : x \in DOMAIN ret.before /\ ratings[x] = ret.before[x]

\* compute_ratings ran on an engine constructed over a non-empty log and fed
\* a further vote: the rated reviewers kept their ratings, and a reviewer only
\* a fair-pair query had referenced was dropped
C27_Witness ==
    /\ ret.op = "compute_ratings"
    /\ Len(votes_db) > 0
    /\ Len(votes) > Len(votes_db)
    /\ \E x \in DOMAIN ratings : ratings[x] # initial_rating /\ ratings[x] = ret.before[x]
    /\ DOMAIN ret.before \ DOMAIN ratings # {}

(***************************************************************************)
(* C28: the keys of the ratings map (Spec)                                 *)
(***************************************************************************)
\* the two sides of every vote of a list
SidesOf(vs) == UNION { { vs[i].reviewer_a, vs[i].reviewer_b } : i \in 1..Len(vs) }

\* what every operation but get_fair_pair does to the keys: the map starts
\* empty; a construction or a replay leaves exactly the two sides of the
\* replayed votes; an update adds exactly the two sides of its vote; a key that
\* a fair-pair query added holds exactly the initial rating and no rating is
\* changed by a query; nothing else changes the keys; get_ratings_stats reports
\* one entry per key, with the key's rating
KeysOfComparisons ==
    /\ ret'.op \in { "__init__", "initialize_ratings", "compute_ratings" }
         => DOMAIN ratings' = SidesOf(votes')
    /\ ret'.op = "update_ratings"
         => DOMAIN ratings' = DOMAIN ratings \cup { ret'.vote.reviewer_a, ret'.vote.reviewer_b }
    /\ ret'.op = "add_vote_then_update_ratings"
         => DOMAIN ratings' = DOMAIN ratings \cup SidesOf(<< votes'[Len(votes')] >>)
    /\ ret'.op = "get_fair_pair"
         => \A x \in DOMAIN ratings' : ratings'[x] = Get(ratings, x, initial_rating)
    /\ ret'.op \in { "store_vote", "add_vote", "get_ratings", "get_ratings_stats" }
         => ratings' = ratings
    /\ ret'.op = "get_ratings_stats"
         => /\ DOMAIN ret'.result = DOMAIN ratings'
            /\ \A x \in DOMAIN ratings' : ret'.result[x].score = ratings'[x]

\* C28 as stated: the keys of the ratings map are the sides of the comparisons
\* processed since the last reset united with the competitors a fair-pair query
\* has referenced since (the pair a query returned, at least, and competitors
\* of its pools, at most); a referenced competitor without a comparison holds
\* the initial rating, and the stats have one entry per key.
C28_KeysAreReferenced ==
    /\ (ret.op = "__init__" /\ votes = << >>) => DOMAIN ratings = {}
    /\ [][ /\ KeysOfComparisons
           /\ ret'.op = "get_fair_pair"
                => \E referenced \in SUBSET (candidates(ret'.candidates_a, DOMAIN ratings)
                                               \cup candidates(ret'.candidates_b, DOMAIN ratings)) :
                      /\ ret'.result.kind = "pair"
                           => { ret'.result.a, ret'.result.b } \subseteq referenced
                      /\ DOMAIN ratings' = DOMAIN ratings \cup referenced
         ]_vars

\* C28, amended: the keys are the sides of the comparisons processed since the
\* last reset united with the competitors whose rating a fair-pair query has
\* looked up since: a query on an engine with ratings and two non-empty pools
\* looks up every member of candidates_b and every reviewer_a it tried (the
\* returned one among them, no other member of candidates_a); a query on an
\* engine without ratings, or with an empty pool, looks up none, also when it
\* returns a pair.  A looked-up competitor without a comparison holds the
\* initial rating, and the stats have one entry per key.
C28_KeysOfRatings ==
    /\ (ret.op = "__init__" /\ votes = << >>) => DOMAIN ratings = {}
    /\ [][ /\ KeysOfComparisons
           /\ ret'.op = "get_fair_pair"
                => LET pool_a == candidates(ret'.candidates_a, DOMAIN ratings)
                       pool_b == candidates(ret'.candidates_b, DOMAIN ratings)
                   IN  IF DOMAIN ratings = {} \/ pool_a = {} \/ pool_b = {}
                       THEN DOMAIN ratings' = DOMAIN ratings
                       ELSE \E tried \in SUBSET pool_a :
                               /\ tried # {}
                               /\ ret'.result.kind = "pair" => ret'.result.a \in tried
                               /\ DOMAIN ratings' = DOMAIN ratings \cup tried \cup pool_b
         ]_vars

\* get_ratings_stats on an engine that rated A and B in a comparison and
\* whose fair-pair query looked up C: three entries, C at the initial rating
C28_Witness ==
    /\ ret.op = "get_ratings_stats"
    /\ DOMAIN ret.result = { "A", "B", "C" }
    /\ \E x \in Reviewers :
          /\ SidesOf(votes) = Reviewers \ {x}
          /\ ret.result[x].score = initial_rating
          /\ \A y \in Reviewers \ {x} : ret.result[y].score # initial_rating

(***************************************************************************)
(* C29: an incomplete submission changes nothing (SpecApp)                 *)
(***************************************************************************)
\* a vote with a judgement that was not selected
Unjudged(vote) == \E i \in 1..Len(FIELDS) : vote[FIELDS[i]] = None

\* C29: a submit_vote call in which a judgement is missing changes neither
\* store nor the session (its engine's vote list, ratings and vote masses, its
\* paper, its reviewer pair and its reviews) and is over in that step, whatever
\* other handlers of the session are running; no vote with a
\* missing judgement is ever made, stored or given to an engine.
C29_IncompleteChangesNothing ==
    /\ [](/\ \A s \in DOMAIN call : "vote" \in DOMAIN call[s] => ~Unjudged(call[s].vote)
          /\ \A s \in DOMAIN session :
                \A i \in 1..Len(EloSys(session, s).votes) :
                    ~Unjudged(EloSys(session, s).votes[i]))
    /\ [][ (ret'.op = "submit_vote" /\ ret'.kind = "incomplete")
               => /\ None \in Elements(ret'.radio)
                  /\ votes_sqlite' = votes_sqlite
                  /\ votes_jsonl' = votes_jsonl
                  /\ session' = session
                  /\ call' = StartEnd(ret'.session_id)
         ]_vars

\* an incomplete submission (one judgement missing) by a session that voted
\* before: both stores and the session's engine hold its vote, untouched
C29_Witness ==
    /\ ret.op = "submit_vote"
    /\ ret.kind = "incomplete"
    /\ Cardinality({ i \in 1..4 : ret.radio[i] = None }) = 1
    /\ ret.session_id \in DOMAIN session
    /\ Submitted(ret.session_id) = 1
    /\ LET vs == EloSys(session, ret.session_id).votes
       IN  /\ Len(vs) > 0
           /\ InSqlite(votes_sqlite, vs[Len(vs)])
           /\ InJsonl(votes_jsonl, vs[Len(vs)])

(***************************************************************************)
(* C30: select_new_paper (SpecApp)                                         *)
(***************************************************************************)
\* the last handler called select_new_paper
SelectCalled ==
    /\ "examined" \in DOMAIN ret
    /\ Len(ret.examined) > 0 \/ ret.kind = "ValueError"

\* C30: select_new_paper ends by selecting a paper or by raising ValueError.
\* It examines the positions new_paper_pos, new_paper_pos + 1, ... modulo the
\* size of the registry, each at most once; get_fair_pair returned None for
\* every position before the last examined; when it selects, the last examined
\* position is the first whose get_fair_pair returned a pair and the session
\* holds that paper, the pair and no voted pair of reviews; and it raises
\* ValueError exactly when get_fair_pair returned None for every paper.
C30_SelectNewPaperTerminates ==
    SelectCalled =>
        LET size == Len(paper_registry)
            ex == ret.examined
            n == Len(ex)
        IN  /\ ret.kind \in { "selected", "ValueError" }
            /\ n <= size
            /\ \A i \in 1..n : ex[i][1] = (ret.new_paper_pos + i - 1) % size
            /\ \A i \in 1..(n - 1) : ex[i][2] = "None"
            /\ ret.kind = "selected" =>
                  LET sess == session[ret.session_id]
                      paper == paper_registry[ex[n][1] + 1]
                  IN  /\ ex[n][2] = "pair"
                      /\ sess["cur_paper_pos"] = ex[n][1]
                      /\ sess["paper_id"] = paper.paper_id
                      /\ sess["reviewer_a"] \in get_all_valid_reviewer_ids(paper)
                      /\ sess["reviewer_b"]
                           \in get_all_valid_reviewer_ids(paper) \ { sess["reviewer_a"] }
                      /\ sess["voted_pair_of_reviews"] = {}
            /\ ret.kind = "ValueError" <=> (n = size /\ \A i \in 1..n : ex[i][2] = "None")
=============================================================================
